---------------------------- MODULE Spec2Model ----------------------------
(***************************************************************************)
(* Verification model of omer-twist/auto-creation: the render-job tracker  *)
(* and orchestrator (placid/), the batched creative service                *)
(* (src/services/creative.py), the config-driven creative engine           *)
(* (src/engine/engine.py), the tabular-output parser and the staged text   *)
(* pipeline.  Each component has its own specification; the variables of   *)
(* the other components stay at their initial values under it.             *)
(*                                                                         *)
(* Conventions.  Python None is 0 for job ids and URLs (the code tests ids *)
(* with "if image_id", so a falsy id is a failed submission) and "" for    *)
(* error texts.  A job of the tracker is identified by its position in     *)
(* all_jobs.  The render service hands out each job id at most once.       *)
(***************************************************************************)
EXTENDS Integers, Sequences, FiniteSets, TLC

\* ------------------------------------------------------------------ bounds
\* Largest number of jobs one Orchestrator.run registers.
MaxJobs == 3

\* ------------------------------------------------------------- the tracker
VARIABLES
    impl,           \* which implementation of the render-job flow this behaviour runs
    tracker,        \* JobTracker: [jobs, pending, all_jobs]
    o_pc,           \* Orchestrator.run position: add / submit / poll / sleep / returned
    o_list,         \* the list the running loop iterates (a snapshot)
    o_i,            \* position in o_list (1-based, next element to handle)
    o_submit_calls, \* history: jobs client.submit_job was called for, in order
    o_ever_sub,     \* history: jobs that were SUBMITTED at some point
    o_sub_failed,   \* history: jobs whose submit_job call returned no id
    o_poll_errors   \* history: jobs for which a poll answered "error"

orch_vars == <<tracker, o_pc, o_list, o_i, o_submit_calls, o_ever_sub, o_sub_failed, o_poll_errors>>

VARIABLES
    s_pc,           \* generate_batch position: submit / poll_until_done / poll / returned / raised
    s_n,            \* len(texts) = len(styles)
    s_i,            \* _submit_all: texts submitted so far
    s_job_ids,      \* _submit_all: job_ids
    s_pending,      \* _poll_until_done: pending
    s_todo,         \* _poll_until_done: the part of list(pending) not yet polled this round
    s_urls,         \* _poll_until_done: urls
    s_result,       \* what generate_batch returned
    s_submit_calls, \* history: number of client.submit_job calls
    s_sub_failed,   \* history: positions whose submit_job call returned no id
    s_poll_errors   \* history: job ids for which a poll answered "error"

svc_vars == <<s_pc, s_n, s_i, s_job_ids, s_pending, s_todo, s_urls, s_result,
              s_submit_calls, s_sub_failed, s_poll_errors>>

VARIABLES
    e_config,       \* generate's config argument
    e_inputs,       \* generate's inputs argument
    e_count,        \* generate's count argument
    e_pc,           \* generate position: resolve / submit / poll / returned / raised
    e_results,      \* _resolve_sources: results (source -> list or dict)
    e_src,          \* _resolve_sources: position in slots_by_source (1-based, next)
    e_slot,         \* _resolve_sources: position in the per-slot loop of that source
    e_i,            \* _build_creatives: submit loop index i
    e_job_ids,      \* _build_creatives: job_ids, (job_id, layers, variant) triples
    e_p,            \* _build_creatives: position in the poll loop (1-based)
    e_attempt,      \* _poll_job: attempts made for the job being polled
    e_creatives,    \* _build_creatives: creatives
    e_return,       \* what generate returned
    e_calls,        \* history: generator invocations, in order
    e_submit_log,   \* history: submit_generic_job calls, in order
    e_poll_log      \* history: the poll_job answers that ended a job's polling, in order

eng_vars == <<e_config, e_inputs, e_count, e_pc, e_results, e_src, e_slot, e_i, e_job_ids,
              e_p, e_attempt, e_creatives, e_return, e_calls, e_submit_log, e_poll_log>>
eng_args == <<e_config, e_inputs, e_count>>

VARIABLES
    p_variant,      \* which parser reads the content: "plain" or "paired"
    p_content,      \* the raw text handed to the parser, as its list of lines
    p_pc,           \* compose (the text is being written) / parsed
    p_out           \* what the parser did: the rows returned or the failure raised

par_vars == <<p_variant, p_content, p_pc, p_out>>

VARIABLES
    t_impl,         \* which pipeline runs: "service" (TextService.generate_for_topic),
                    \* "pipeline" or "product_cluster" (generate_for_product_cluster)
    t_max_retries,  \* the max_retries argument
    t_stage,        \* the stage being run (1-based position in STAGES)
    t_attempt,      \* the loop variable attempt of the stage being run
    t_pc,           \* attempt / returned / raised / failed
    t_fails,        \* history: per stage, outputs that failed validation so far
    t_outputs,      \* the output each finished stage returned
    t_error,        \* the failure raised: [kind, stage, attempts]
    t_calls         \* history: the backend calls made, [stage, prev_tsv, outcome]

text_vars ==
    <<t_impl, t_max_retries, t_stage, t_attempt, t_pc, t_fails, t_outputs, t_error, t_calls>>

VARIABLES
    pl_config,      \* the config whose pools are resolved
    pl_source,      \* the style.* or cta.* source resolved
    pl_count,       \* the count argument
    pl_runs         \* the lists returned by the resolutions made so far

pool_vars == <<pl_config, pl_source, pl_count, pl_runs>>

VARIABLES
    r_client,       \* whose submit runs: "creative" (CreativeClient) or "placid" (PlacidClient)
    r_job,          \* the job being submitted (1-based position among the caller's jobs)
    r_attempt,      \* _request_with_retry: the loop variable attempt
    r_pc,           \* request (in the retry loop) / done (every job's submit returned)
    r_log,          \* history: the requests made, [job, attempt, status], in order
    r_waits,        \* history: per job, the wait_time of every sleep, in order
    r_returns       \* what submit returned for each job so far (0 is None)

req_vars == <<r_client, r_job, r_attempt, r_pc, r_log, r_waits, r_returns>>

VARIABLES
    q_job,          \* _build_creatives' poll loop: the job being polled (1-based)
    q_poll,         \* _poll_job: how many poll_job calls for this job have returned
    q_attempt,      \* _request_with_retry inside the running poll_job: attempt
    q_pc,           \* request / returned (every job finished) / raised
    q_error,        \* the RuntimeError's message once raised
    q_log           \* history: what every poll_job call returned, and from which response

poll_vars == <<q_job, q_poll, q_attempt, q_pc, q_error, q_log>>

VARIABLES
    g_inputs,       \* ProductImageGenerator.generate: context.inputs
    g_count,        \* context.count
    g_pc,           \* enter / loop (cycling mode) / returned / raised
    g_i,            \* cycling mode: the loop variable i
    g_unique,       \* unique_results
    g_log,          \* history: the (input_index, URL) handed to the processing, in order
    g_out           \* the list returned

gen_vars == <<g_inputs, g_count, g_pc, g_i, g_unique, g_log, g_out>>

VARIABLES
    m_attempt,      \* GeminiClient._call_with_retry: the loop variable attempt
    m_pc,           \* call / returned / raised
    m_log,          \* history: the outcome of every func() call, in order
    m_waits,        \* history: the wait_time of every sleep, in order
    m_out           \* the value returned, or the error re-raised

gem_vars == <<m_attempt, m_pc, m_log, m_waits, m_out>>

VARIABLES
    h_variations,   \* handler: result.variations, the pipeline's TextVariation list
    h_i,            \* submit_all_images: how many variations the loop has passed
    h_image_ids,    \* image_ids: variation.index -> image id
    h_pc,           \* submit / returned / raised
    h_error         \* the exception raised

hand_vars == <<h_variations, h_i, h_image_ids, h_pc, h_error>>

\* The variables of the components outside the render-job flow.
rest_vars == <<par_vars, text_vars, pool_vars, req_vars, poll_vars, gen_vars, gem_vars,
               hand_vars>>

PENDING == "pending"
SUBMITTED == "submitted"
FINISHED == "finished"
ERROR == "error"
JobStatus == {PENDING, SUBMITTED, FINISHED, ERROR}

\* Ids the render service can hand out (never 0, never twice).
JobIds == 1..(MaxJobs + 1)
\* The URL the render service reports for a finished job.
UrlOf(id) == 100 + id

\* Job(variant, text): a fresh job is PENDING and has no id, URL or error.
Job == [status |-> PENDING, image_id |-> 0, image_url |-> 0, error |-> ""]

\* JobTracker.__init__
JobTracker == [jobs |-> <<>>, pending |-> <<>>, all_jobs |-> <<>>]

\* list.remove(x) for a list without the element removed (first occurrence).
RECURSIVE Remove(_, _)
Remove(s, x) ==
    IF s = <<>> THEN <<>>
    ELSE IF Head(s) = x THEN Tail(s)
    ELSE <<Head(s)>> \o Remove(Tail(s), x)

InSeq(s, x) == \E k \in 1..Len(s) : s[k] = x

\* JobTracker.add_job
add_job(t) ==
    LET j == Len(t.all_jobs) + 1
    IN  [t EXCEPT !.pending = Append(@, j), !.all_jobs = Append(@, Job)]

\* Mutant of mark_submitted: the id is not stored on the job.
mark_submitted_no_id(t, j, image_id) ==
    [t EXCEPT !.all_jobs[j].status = SUBMITTED,
              !.jobs = (image_id :> j) @@ @,
              !.pending = IF InSeq(@, j) THEN Remove(@, j) ELSE @]

\* JobTracker.mark_submitted
mark_submitted(t, j, image_id) ==
    [t EXCEPT !.all_jobs[j].status = SUBMITTED,
              !.all_jobs[j].image_id = image_id,
              !.jobs = (image_id :> j) @@ @,
              !.pending = IF InSeq(@, j) THEN Remove(@, j) ELSE @]

\* JobTracker.mark_finished
mark_finished(t, image_id, image_url) ==
    IF image_id \in DOMAIN t.jobs
    THEN [t EXCEPT !.all_jobs[t.jobs[image_id]].status = FINISHED,
                   !.all_jobs[t.jobs[image_id]].image_url = image_url]
    ELSE t

\* JobTracker.mark_error, called with a job id (isinstance(job_or_id, int))
mark_error_id(t, image_id, error) ==
    IF image_id \in DOMAIN t.jobs
    THEN [t EXCEPT !.all_jobs[t.jobs[image_id]].status = ERROR,
                   !.all_jobs[t.jobs[image_id]].error = error]
    ELSE t

\* Mutant of mark_error_job: the failed job stays in the pending list.
mark_error_job_keeps_pending(t, j, error) ==
    [t EXCEPT !.all_jobs[j].status = ERROR,
              !.all_jobs[j].error = error]

\* JobTracker.mark_error, called with a Job
mark_error_job(t, j, error) ==
    [t EXCEPT !.all_jobs[j].status = ERROR,
              !.all_jobs[j].error = error,
              !.pending = IF InSeq(@, j) THEN Remove(@, j) ELSE @]

\* Mutant of get_submitted_jobs: every job that has an id, whatever its status.
RECURSIVE WithIdFrom(_, _)
WithIdFrom(t, k) ==
    IF k > Len(t.all_jobs) THEN <<>>
    ELSE (IF t.all_jobs[k].image_id # 0 THEN <<k>> ELSE <<>>) \o WithIdFrom(t, k + 1)
get_jobs_with_id(t) == WithIdFrom(t, 1)

\* JobTracker.get_submitted_jobs
RECURSIVE SubmittedFrom(_, _)
SubmittedFrom(t, k) ==
    IF k > Len(t.all_jobs) THEN <<>>
    ELSE (IF t.all_jobs[k].status = SUBMITTED THEN <<k>> ELSE <<>>)
         \o SubmittedFrom(t, k + 1)
get_submitted_jobs(t) == SubmittedFrom(t, 1)

\* JobTracker.get_results
get_results(t) == t.all_jobs

\* JobTracker.get_stats: the number of jobs of all_jobs per status.
get_stats(t) ==
    [s \in JobStatus |-> Cardinality({k \in 1..Len(t.all_jobs) : t.all_jobs[k].status = s})]


\* ------------------------------------------------- the render collaborator
\* client.submit_job / submit_generic_job: a fresh job id, or 0 (None) when the
\* request failed.  `used` are the ids already handed out.
SubmitAnswers(used) == {0} \cup (JobIds \ used)

\* client.poll_job: (status, url, error).  A finished job normally carries its
\* URL; the service may also answer finished with no URL yet, an error with or
\* without a message, or any other status (queued, unknown).  A poll of id 0
\* (None, a job whose submission failed) asks the service for /images/None:
\* what it answers is the service's affair, so every answer is allowed.
PollAnswers(id) ==
    { [status |-> "finished", url |-> UrlOf(id), error |-> ""],
      [status |-> "finished", url |-> 0, error |-> ""],
      [status |-> "error", url |-> 0, error |-> "render failed"],
      [status |-> "error", url |-> 0, error |-> ""],
      [status |-> "queued", url |-> 0, error |-> ""] }

\* ---------------------------------------------------------- Orchestrator
UsedIds(t) == DOMAIN t.jobs

OrchInit ==
    /\ tracker = JobTracker
    /\ o_pc = "add"
    /\ o_list = <<>>
    /\ o_i = 1
    /\ o_submit_calls = <<>>
    /\ o_ever_sub = {}
    /\ o_sub_failed = {}
    /\ o_poll_errors = {}

\* Orchestrator.run, the add loop: one tracker.add_job per variant.
O_AddJob ==
    /\ impl = "orchestrator"
    /\ o_pc = "add"
    /\ Len(tracker.all_jobs) < MaxJobs
    /\ tracker' = add_job(tracker)
    /\ UNCHANGED <<o_pc, o_list, o_i, o_submit_calls, o_ever_sub, o_sub_failed, o_poll_errors>>
    /\ UNCHANGED <<impl, svc_vars, eng_vars, rest_vars>>

\* Orchestrator.submit_all, entry: the loop iterates list(self.tracker.pending).
O_BeginSubmit ==
    /\ impl = "orchestrator"
    /\ o_pc = "add"
    /\ o_pc' = "submit"
    /\ o_list' = tracker.pending
    /\ o_i' = 1
    /\ UNCHANGED <<tracker, o_submit_calls, o_ever_sub, o_sub_failed, o_poll_errors>>
    /\ UNCHANGED <<impl, svc_vars, eng_vars, rest_vars>>

\* The tracker after one submit answer, as submit_all's loop body updates it.
SubmitOutcome(t, j, image_id) ==
    IF image_id # 0 THEN mark_submitted(t, j, image_id)
    ELSE mark_error_job(t, j, "Submit failed")

\* Mutant of O_Submit: a failed submission ends the submit loop (fail fast).
O_SubmitFailFast ==
    /\ impl = "orchestrator"
    /\ o_pc = "submit"
    /\ o_i <= Len(o_list)
    /\ \E image_id \in SubmitAnswers(UsedIds(tracker)) :
         LET j == o_list[o_i] IN
         /\ tracker' = SubmitOutcome(tracker, j, image_id)
         /\ o_submit_calls' = Append(o_submit_calls, j)
         /\ o_sub_failed' = IF image_id = 0 THEN o_sub_failed \cup {j} ELSE o_sub_failed
         /\ o_i' = IF image_id = 0 THEN Len(o_list) + 1 ELSE o_i + 1
    /\ o_ever_sub' = o_ever_sub \cup
          {j \in 1..Len(tracker'.all_jobs) : tracker'.all_jobs[j].status = SUBMITTED}
    /\ UNCHANGED <<o_pc, o_list, o_poll_errors>>
    /\ UNCHANGED <<impl, svc_vars, eng_vars, rest_vars>>

\* Orchestrator.submit_all, one loop iteration.
O_Submit ==
    /\ impl = "orchestrator"
    /\ o_pc = "submit"
    /\ o_i <= Len(o_list)
    /\ \E image_id \in SubmitAnswers(UsedIds(tracker)) :
         LET j == o_list[o_i] IN
         /\ tracker' = SubmitOutcome(tracker, j, image_id)
         /\ o_submit_calls' = Append(o_submit_calls, j)
         /\ o_sub_failed' = IF image_id = 0 THEN o_sub_failed \cup {j} ELSE o_sub_failed
    /\ o_i' = o_i + 1
    /\ o_ever_sub' = o_ever_sub \cup
          {j \in 1..Len(tracker'.all_jobs) : tracker'.all_jobs[j].status = SUBMITTED}
    /\ UNCHANGED <<o_pc, o_list, o_poll_errors>>
    /\ UNCHANGED <<impl, svc_vars, eng_vars, rest_vars>>

\* Orchestrator.submit_all returns; run enters poll_all.
O_EndSubmit ==
    /\ impl = "orchestrator"
    /\ o_pc = "submit"
    /\ o_i > Len(o_list)
    /\ o_pc' = "poll_all"
    /\ UNCHANGED <<tracker, o_list, o_i, o_submit_calls, o_ever_sub, o_sub_failed, o_poll_errors>>
    /\ UNCHANGED <<impl, svc_vars, eng_vars, rest_vars>>

\* Orchestrator.poll_all, top of the while loop: get_submitted_jobs(); break
\* (and run returns get_results()) when none is left.
O_PollRound ==
    /\ impl = "orchestrator"
    /\ o_pc = "poll_all"
    /\ LET pending == get_submitted_jobs(tracker) IN
         IF pending = <<>>
         THEN /\ o_pc' = "returned"
              /\ UNCHANGED <<o_list, o_i>>
         ELSE /\ o_pc' = "poll"
              /\ o_list' = pending
              /\ o_i' = 1
    /\ UNCHANGED <<tracker, o_submit_calls, o_ever_sub, o_sub_failed, o_poll_errors>>
    /\ UNCHANGED <<impl, svc_vars, eng_vars, rest_vars>>

\* The tracker after one poll answer, as poll_all's loop body updates it.
PollOutcome(t, image_id, ans) ==
    IF ans.status = "finished" THEN mark_finished(t, image_id, ans.url)
    ELSE IF ans.status = "error"
         THEN mark_error_id(t, image_id, IF ans.error # "" THEN ans.error ELSE "Unknown error")
    ELSE t

\* Orchestrator.poll_all, one iteration of "for job in pending".
O_Poll ==
    /\ impl = "orchestrator"
    /\ o_pc = "poll"
    /\ o_i <= Len(o_list)
    /\ LET j == o_list[o_i]
           image_id == tracker.all_jobs[j].image_id
       IN \E ans \in PollAnswers(image_id) :
            /\ tracker' = PollOutcome(tracker, image_id, ans)
            /\ o_poll_errors' = IF ans.status = "error" THEN o_poll_errors \cup {j}
                                ELSE o_poll_errors
    /\ o_i' = o_i + 1
    /\ UNCHANGED <<o_pc, o_list, o_submit_calls, o_ever_sub, o_sub_failed>>
    /\ UNCHANGED <<impl, svc_vars, eng_vars, rest_vars>>

\* Orchestrator.poll_all, end of a round: time.sleep(poll_interval).
O_Sleep ==
    /\ impl = "orchestrator"
    /\ o_pc = "poll"
    /\ o_i > Len(o_list)
    /\ o_pc' = "poll_all"
    /\ UNCHANGED <<tracker, o_list, o_i, o_submit_calls, o_ever_sub, o_sub_failed, o_poll_errors>>
    /\ UNCHANGED <<impl, svc_vars, eng_vars, rest_vars>>


\* -------------------------------------------------------- CreativeService
SeqRange(s) == {s[k] : k \in 1..Len(s)}

SvcInit(n) ==
    /\ s_pc = "submit"
    /\ s_n = n
    /\ s_i = 0
    /\ s_job_ids = <<>>
    /\ s_pending = {}
    /\ s_todo = {}
    /\ s_urls = <<>>
    /\ s_result = <<>>
    /\ s_submit_calls = 0
    /\ s_sub_failed = {}
    /\ s_poll_errors = {}

\* CreativeService._submit_all, one loop iteration: a missing id raises
\* ImageGenerationError and ends the call.
S_Submit ==
    /\ impl = "service"
    /\ s_pc = "submit"
    /\ s_i < s_n
    /\ \E image_id \in SubmitAnswers(SeqRange(s_job_ids)) :
         /\ s_submit_calls' = s_submit_calls + 1
         /\ IF image_id = 0
            THEN /\ s_pc' = "raised"
                 /\ s_sub_failed' = s_sub_failed \cup {s_i}
                 /\ UNCHANGED <<s_i, s_job_ids>>
            ELSE /\ s_job_ids' = Append(s_job_ids, image_id)
                 /\ s_i' = s_i + 1
                 /\ UNCHANGED <<s_pc, s_sub_failed>>
    /\ UNCHANGED <<s_n, s_pending, s_todo, s_urls, s_result, s_poll_errors>>
    /\ UNCHANGED <<impl, orch_vars, eng_vars, rest_vars>>

\* _submit_all returns job_ids; _poll_until_done starts with pending = set(job_ids).
S_EndSubmit ==
    /\ impl = "service"
    /\ s_pc = "submit"
    /\ s_i = s_n
    /\ s_pc' = "poll_until_done"
    /\ s_pending' = SeqRange(s_job_ids)
    /\ s_urls' = <<>>
    /\ UNCHANGED <<s_n, s_i, s_job_ids, s_todo, s_result, s_submit_calls, s_sub_failed,
                   s_poll_errors>>
    /\ UNCHANGED <<impl, orch_vars, eng_vars, rest_vars>>

\* CreativeService._build_creative, for the text at position k (0-based).
build_creative(k, url) == [text |-> k, image_url |-> url]

\* Mutant of PollResult: URLs in the order the job ids compare, not in the
\* order the jobs were submitted.
RECURSIVE SortedSeq(_)
SortedSeq(S) ==
    IF S = {} THEN <<>>
    ELSE LET m == CHOOSE x \in S : \A y \in S : x <= y
         IN  <<m>> \o SortedSeq(S \ {m})
PollResultSorted(job_ids, urls) ==
    LET ids == SortedSeq(SeqRange(job_ids))
    IN  [k \in 1..Len(job_ids) |-> urls[ids[k]]]

\* _poll_until_done's return value: [urls[job_id] for job_id in job_ids]
PollResult(job_ids, urls) == [k \in 1..Len(job_ids) |-> urls[job_ids[k]]]

\* _poll_until_done, top of "while pending": return the URLs in job_ids order
\* (generate_batch zips them with the texts), or sleep and start a round over
\* list(pending).
S_While ==
    /\ impl = "service"
    /\ s_pc = "poll_until_done"
    /\ IF s_pending = {}
       THEN /\ s_pc' = "returned"
            /\ s_result' = LET us == PollResult(s_job_ids, s_urls)
                            IN  [k \in 1..Len(us) |-> build_creative(k - 1, us[k])]
            /\ UNCHANGED s_todo
       ELSE /\ s_pc' = "poll"
            /\ s_todo' = s_pending
            /\ UNCHANGED s_result
    /\ UNCHANGED <<s_n, s_i, s_job_ids, s_pending, s_urls, s_submit_calls, s_sub_failed,
                   s_poll_errors>>
    /\ UNCHANGED <<impl, orch_vars, eng_vars, rest_vars>>

\* _poll_until_done, one iteration of "for job_id in list(pending)" (a set has
\* no order the code controls, so any unpolled member may come next).
S_Poll ==
    /\ impl = "service"
    /\ s_pc = "poll"
    /\ \E job_id \in s_todo : \E ans \in PollAnswers(job_id) :
         /\ s_todo' = s_todo \ {job_id}
         /\ IF ans.status = "finished"
            THEN /\ s_urls' = (job_id :> ans.url) @@ s_urls
                 /\ s_pending' = s_pending \ {job_id}
                 /\ UNCHANGED <<s_pc, s_poll_errors>>
            ELSE IF ans.status = "error"
            THEN /\ s_pc' = "raised"
                 /\ s_poll_errors' = s_poll_errors \cup {job_id}
                 /\ UNCHANGED <<s_urls, s_pending>>
            ELSE UNCHANGED <<s_pc, s_urls, s_pending, s_poll_errors>>
    /\ UNCHANGED <<s_n, s_i, s_job_ids, s_result, s_submit_calls, s_sub_failed>>
    /\ UNCHANGED <<impl, orch_vars, eng_vars, rest_vars>>

\* _poll_until_done, end of a round.
S_EndRound ==
    /\ impl = "service"
    /\ s_pc = "poll"
    /\ s_todo = {}
    /\ s_pc' = "poll_until_done"
    /\ UNCHANGED <<s_n, s_i, s_job_ids, s_pending, s_todo, s_urls, s_result,
                   s_submit_calls, s_sub_failed, s_poll_errors>>
    /\ UNCHANGED <<impl, orch_vars, eng_vars, rest_vars>>


\* ------------------------------------------------- template configuration
\* Largest creative count N of one generate call.
MaxCount == 3
\* _poll_job's attempt ceiling (its default is 60; the model runs it with a
\* small ceiling so that a timeout is reached).
max_attempts == 2

Get(map, key, default) == IF key \in DOMAIN map THEN map[key] ELSE default

\* Slot(name, source, generator_config, optional, batch_creatives); name is
\* "<layer>.<prop>" and source is "<ns>.<field>", kept split at the dot.
Slot(layer, prop, ns, field, gc, optional, batch) ==
    [name |-> [layer |-> layer, prop |-> prop],
     source |-> [ns |-> ns, field |-> field],
     generator_config |-> gc,
     optional |-> optional,
     batch_creatives |-> batch]

NoConfig == <<>>
Color(c) == <<"color", c>>
Cta(c) == <<"cta", c>>
Repeat(x, n) == [k \in 1..n |-> x]

\* HALF_HALF_CONFIG, with its pools cut to their first four entries.
HALF_HALF_CONFIG ==
    [name |-> "half_half",
     variants |-> <<"default">>,
     variant_sequence |-> Repeat("default", 12),
     style_pool |-> << [bg_left |-> Color(1), text_color |-> Color(9)],
                       [bg_left |-> Color(2), text_color |-> Color(9)],
                       [bg_left |-> Color(3), text_color |-> Color(9)],
                       [bg_left |-> Color(4), text_color |-> Color(8)] >>,
     cta_pool |-> << [button_image |-> Cta(1)], [button_image |-> Cta(2)],
                     [button_image |-> Cta(2)], [button_image |-> Cta(3)] >>,
     slots |-> << Slot("main_text", "text", "text", "main_text", NoConfig, FALSE, TRUE),
                  Slot("main_text", "text_color", "style", "text_color", NoConfig, FALSE, FALSE),
                  Slot("bg_left", "background_color", "style", "bg_left", NoConfig, FALSE, FALSE),
                  Slot("cta", "image", "cta", "button_image", NoConfig, FALSE, FALSE),
                  Slot("image", "image", "image", "product",
                       [aspect_ratio |-> "9:16"], FALSE, TRUE) >>]

\* PRODUCT_GRID_CONFIG, with two of its eight image cells and two of its nine
\* background slots; the pool repeats each colour three times.
PRODUCT_GRID_CONFIG ==
    [name |-> "product_grid",
     variants |-> <<"default">>,
     variant_sequence |-> Repeat("default", 12),
     style_pool |-> << [bg_left |-> Color(1), bg_right_1 |-> Color(5)],
                       [bg_left |-> Color(1), bg_right_1 |-> Color(5)],
                       [bg_left |-> Color(1), bg_right_1 |-> Color(5)],
                       [bg_left |-> Color(2), bg_right_1 |-> Color(6)] >>,
     cta_pool |-> << [button_image |-> Cta(1)], [button_image |-> Cta(1)],
                     [button_image |-> Cta(1)], [button_image |-> Cta(2)] >>,
     slots |-> << Slot("main_text", "text", "text", "main_text", NoConfig, FALSE, TRUE),
                  Slot("img-right-1", "image", "image", "product",
                       [input_index |-> 0, aspect_ratio |-> "1:1"], FALSE, FALSE),
                  Slot("img-right-2", "image", "image", "product",
                       [input_index |-> 1, aspect_ratio |-> "1:1"], FALSE, FALSE),
                  Slot("bg-left", "background_color", "style", "bg_left", NoConfig, FALSE, FALSE),
                  Slot("bg-right-1", "background_color", "style", "bg_right_1",
                       NoConfig, FALSE, FALSE),
                  Slot("cta", "image", "cta", "button_image", NoConfig, FALSE, FALSE) >>]

\* PRODUCT_CLUSTER_CONFIG: two variants, an optional header, a broadcast main
\* text, one cluster image; no cta pool.
PRODUCT_CLUSTER_CONFIG ==
    [name |-> "product_cluster",
     variants |-> <<"dark", "light">>,
     variant_sequence |-> Repeat("dark", 6) \o Repeat("light", 6),
     style_pool |-> << [background_color |-> Color(1)], [background_color |-> Color(2)],
                       [background_color |-> Color(3)], [background_color |-> Color(4)] >>,
     cta_pool |-> <<>>,
     slots |-> << Slot("header", "text", "text", "header", NoConfig, TRUE, FALSE),
                  Slot("main_text", "text", "text", "main_text", NoConfig, FALSE, FALSE),
                  Slot("image", "image", "image", "cluster",
                       [aspect_ratio |-> "16:9"], FALSE, FALSE),
                  Slot("bg", "background_color", "style", "background_color",
                       NoConfig, FALSE, FALSE) >>]

\* A template with a single variant and no variant sequence, no pools, an
\* optional batch header and a broadcast cluster image.
SINGLE_VARIANT_CONFIG ==
    [name |-> "single_variant",
     variants |-> <<"only">>,
     variant_sequence |-> <<>>,
     style_pool |-> <<>>,
     cta_pool |-> <<>>,
     slots |-> << Slot("header", "text", "text", "header", NoConfig, TRUE, TRUE),
                  Slot("image", "image", "image", "cluster",
                       [aspect_ratio |-> "16:9"], FALSE, FALSE) >>]

\* A template whose two text slots are filled from one batch text source.
SHARED_SOURCE_CONFIG ==
    [name |-> "shared_source",
     variants |-> <<"only">>,
     variant_sequence |-> <<>>,
     style_pool |-> <<>>,
     cta_pool |-> <<>>,
     slots |-> << Slot("main_text", "text", "text", "main_text", NoConfig, FALSE, TRUE),
                  Slot("sub_text", "text", "text", "main_text", NoConfig, FALSE, TRUE) >>]

\* A malformed template: a style slot and a cta slot, and no pool for either.
MISSING_POOLS_CONFIG ==
    [name |-> "missing_pools",
     variants |-> <<"only">>,
     variant_sequence |-> <<>>,
     style_pool |-> <<>>,
     cta_pool |-> <<>>,
     slots |-> << Slot("header", "text", "text", "header", NoConfig, FALSE, TRUE),
                  Slot("bg", "background_color", "style", "background_color",
                       NoConfig, FALSE, FALSE),
                  Slot("cta", "image", "cta", "button_image", NoConfig, FALSE, FALSE) >>]

\* generate's default count.
DefaultCount == 12

\* A template with two variants and the variant sequence ["dark", "light"] * 6,
\* and one slot filled from a style pool of four entries.
ALTERNATING_CONFIG ==
    [name |-> "alternating",
     variants |-> <<"dark", "light">>,
     variant_sequence |-> [k \in 1..DefaultCount |-> IF k % 2 = 1 THEN "dark" ELSE "light"],
     style_pool |-> << [background_color |-> Color(1)], [background_color |-> Color(2)],
                       [background_color |-> Color(3)], [background_color |-> Color(4)] >>,
     cta_pool |-> <<>>,
     slots |-> << Slot("bg", "background_color", "style", "background_color",
                       NoConfig, FALSE, FALSE) >>]

\* A template whose two text slots are filled from one text source, the first
\* marked batch and the second not.
MIXED_BATCH_CONFIG ==
    [name |-> "mixed_batch",
     variants |-> <<"only">>,
     variant_sequence |-> <<>>,
     style_pool |-> <<>>,
     cta_pool |-> <<>>,
     slots |-> << Slot("main_text", "text", "text", "main_text", NoConfig, FALSE, TRUE),
                  Slot("sub_text", "text", "text", "main_text", NoConfig, FALSE, FALSE) >>]

\* A template of generator sources only whose slots carry differing
\* generator_config maps: a batch product image source named by two slots (the
\* first sets input_index and aspect_ratio, the second aspect_ratio again), and
\* a per-slot cluster image source named by two slots (the first is optional
\* and also sets main_lines, a key the caller's inputs may hold).
OVERLAY_CONFIG ==
    [name |-> "overlay",
     variants |-> <<"only">>,
     variant_sequence |-> <<>>,
     style_pool |-> <<>>,
     cta_pool |-> <<>>,
     slots |-> << Slot("image", "image", "image", "product",
                       [input_index |-> 0, aspect_ratio |-> "1:1"], FALSE, TRUE),
                  Slot("image-2", "image", "image", "product",
                       [aspect_ratio |-> "9:16"], FALSE, TRUE),
                  Slot("header", "image", "image", "cluster",
                       [aspect_ratio |-> "16:9", main_lines |-> <<"c1">>], TRUE, FALSE),
                  Slot("square", "image", "image", "cluster",
                       [aspect_ratio |-> "1:1"], FALSE, FALSE) >>]

Configs == {HALF_HALF_CONFIG, PRODUCT_GRID_CONFIG, PRODUCT_CLUSTER_CONFIG,
            SINGLE_VARIANT_CONFIG, SHARED_SOURCE_CONFIG, MISSING_POOLS_CONFIG,
            ALTERNATING_CONFIG, MIXED_BATCH_CONFIG, OVERLAY_CONFIG}

\* The inputs map of a request: the optional-header toggle (absent or false),
\* the product image URLs (none, one or two) and the main_lines override
\* (absent or two lines).
InputsChoices ==
    { t @@ u @@ m :
        t \in {<<>>, [include_header |-> FALSE]},
        u \in {<<>>, [product_image_urls |-> <<"u1">>],
                [product_image_urls |-> <<"u1", "u2">>]},
        m \in {<<>>, [main_lines |-> <<"l1", "l2">>]} }


\* ---------------------------------------------------------------- generators
\* GenerationContext(topic, inputs, options, count)
GenerationContext(inputs, count) == [inputs |-> inputs, count |-> count]

\* What a generator call produced: a list of values, or a raised failure.
Returned(values) == [raised |-> FALSE, values |-> values]
Raised == [raised |-> TRUE, values |-> <<>>]

\* s[:n]
Take(s, n) == IF Len(s) <= n THEN s ELSE SubSeq(s, 1, n)

\* HeaderGenerator.generate: [header] * context.count
HeaderGenerator_generate(context) == Returned(Repeat(<<"header">>, context.count))

\* MainTextGenerator.generate: the main_lines override cut to count, else the
\* lines parsed from the text backend's output (llm_lines of them), cut to count.
MainTextGenerator_generate(context, up, llm_lines) ==
    LET main_lines == Get(context.inputs, "main_lines", <<>>) IN
    IF main_lines # <<>>
    THEN Returned([k \in 1..Len(Take(main_lines, context.count)) |-> <<"pair", main_lines[k]>>])
    ELSE IF ~up THEN Raised
    ELSE Returned(Take([k \in 1..llm_lines |-> <<"llm", k>>], context.count))

\* ImageGenerator.generate over ClusterImageGenerator._generate_raw: one
\* uploaded URL in a single-element list, whatever context.count is.
ClusterImageGenerator_generate(context, up) ==
    LET image_urls == Get(context.inputs, "product_image_urls", <<>>) IN
    IF ~(1 <= Len(image_urls) /\ Len(image_urls) <= 8) THEN Raised
    ELSE IF ~up THEN Raised
    ELSE Returned(<< <<"cluster", image_urls, Get(context.inputs, "aspect_ratio", "16:9")>> >>)

\* ImageGenerator.generate over ProductImageGenerator._generate_raw: the
\* processed image of product_image_urls[input_index], in a single-element list.
ProductImage_single(inputs, up) ==
    LET image_urls == Get(inputs, "product_image_urls", <<>>)
        input_index == Get(inputs, "input_index", -1)
    IN  IF input_index = -1 THEN Raised
        ELSE IF image_urls = <<>> THEN Raised
        ELSE IF input_index >= Len(image_urls) THEN Raised
        ELSE IF ~up THEN Raised
        ELSE Returned(<< <<"product", image_urls[input_index + 1],
                           Get(inputs, "aspect_ratio", "1:1")>> >>)

\* ProductImageGenerator.generate: single-image mode when input_index is in the
\* inputs, else cycling mode (each URL processed once, cycled up to count).
ProductImageGenerator_generate(context, up) ==
    IF "input_index" \in DOMAIN context.inputs
    THEN ProductImage_single(context.inputs, up)
    ELSE LET image_urls == Get(context.inputs, "product_image_urls", <<>>)
             unique_results == [k \in 1..Len(image_urls) |->
                 ProductImage_single([input_index |-> k - 1] @@ context.inputs, up)]
         IN  IF image_urls = <<>> THEN Raised
             ELSE IF \E k \in 1..Len(image_urls) : unique_results[k].raised THEN Raised
             ELSE Returned([i \in 1..context.count |->
                     unique_results[((i - 1) % Len(unique_results)) + 1].values[1]])

\* Numbers of lines the text backend's answer can parse to, for a request of
\* count lines: too few, exactly count, too many.
LlmLineCounts(count) == {count - 1, count, count + 1}

\* get_generator_class(source) and the generator's generate(context); `up` says
\* whether the generator's upstream calls succeed.
generate(source, context, up, llm_lines) ==
    IF source.ns = "text" /\ source.field = "header" THEN HeaderGenerator_generate(context)
    ELSE IF source.ns = "text" /\ source.field = "main_text"
         THEN MainTextGenerator_generate(context, up, llm_lines)
    ELSE IF source.ns = "image" /\ source.field = "cluster"
         THEN ClusterImageGenerator_generate(context, up)
    ELSE IF source.ns = "image" /\ source.field = "product"
         THEN ProductImageGenerator_generate(context, up)
    ELSE Raised


\* ------------------------------------------------------------ CreativeEngine
EngInit(config, inputs, count) ==
    /\ e_config = config
    /\ e_inputs = inputs
    /\ e_count = count
    /\ e_pc = "resolve"
    /\ e_results = <<>>
    /\ e_src = 1
    /\ e_slot = 1
    /\ e_i = 0
    /\ e_job_ids = <<>>
    /\ e_p = 1
    /\ e_attempt = 0
    /\ e_creatives = <<>>
    /\ e_return = <<>>
    /\ e_calls = <<>>
    /\ e_submit_log = <<>>
    /\ e_poll_log = <<>>

\* slots_by_source: the sources in order of first appearance ...
RECURSIVE SourcesFrom(_, _, _)
SourcesFrom(slots, k, seen) ==
    IF k > Len(slots) THEN <<>>
    ELSE IF slots[k].source \in seen THEN SourcesFrom(slots, k + 1, seen)
    ELSE <<slots[k].source>> \o SourcesFrom(slots, k + 1, seen \cup {slots[k].source})
SourceOrder(config) == SourcesFrom(config.slots, 1, {})

\* ... each with the slots that name it, in config order.
RECURSIVE SlotsFrom(_, _, _)
SlotsFrom(slots, k, source) ==
    IF k > Len(slots) THEN <<>>
    ELSE (IF slots[k].source = source THEN <<slots[k]>> ELSE <<>>)
         \o SlotsFrom(slots, k + 1, source)
slots_by_source(config, source) == SlotsFrom(config.slots, 1, source)

\* Mutant of PoolCycle: the pool is stretched (each entry repeated) instead of cycled.
PoolStretch(values, count) ==
    [i \in 1..count |-> values[(((i - 1) * Len(values)) \div count) + 1]]

\* [values[i % len(values)] for i in range(count)]
PoolCycle(values, count) == [i \in 1..count |-> values[((i - 1) % Len(values)) + 1]]

\* Mutant of resolve_pool_source: an absent or empty pool yields a default value.
resolve_pool_default(source, pool, count) ==
    IF pool = <<>> THEN Returned(Repeat(Color(0), count))
    ELSE Returned(PoolCycle([k \in 1..Len(pool) |-> pool[k][source.field]], count))

\* _resolve_style_source / _resolve_cta_source over the pool given: the named
\* field of each pool entry, cycled to count values; an absent or empty pool
\* raises (as does a pool entry without the field).
resolve_pool_source(source, pool, count) ==
    IF pool = <<>> THEN Raised
    ELSE IF \E k \in 1..Len(pool) : source.field \notin DOMAIN pool[k] THEN Raised
    ELSE Returned(PoolCycle([k \in 1..Len(pool) |-> pool[k][source.field]], count))

_resolve_style_source(source, config, count) ==
    resolve_pool_source(source, config.style_pool, count)

_resolve_cta_source(source, config, count) ==
    resolve_pool_source(source, config.cta_pool, count)

\* merged_inputs = {**inputs}; merged_inputs.update(slot.generator_config) for
\* each of the slots given, in order (a later slot's value wins).
RECURSIVE MergeInputs(_, _, _)
MergeInputs(inputs, slots, k) ==
    IF k > Len(slots) THEN inputs
    ELSE MergeInputs(slots[k].generator_config @@ inputs, slots, k + 1)

\* Mutant of CallerInputs: the overlay is written into the caller's map.
CallerInputsAliased(inputs, merged_inputs) == merged_inputs

\* The caller's inputs map after merged_inputs was made from it: {**inputs} is
\* a new map, so the update of merged_inputs leaves inputs as it was.
CallerInputs(inputs, merged_inputs) == inputs

\* Mutant of AnyBatch: no source is a batch source.
NeverBatch(slots) == FALSE

AnyBatch(slots) == \E k \in 1..Len(slots) : slots[k].batch_creatives

ListResult(values) == [shape |-> "list", list |-> values, dict |-> <<>>]
DictResult(d) == [shape |-> "dict", list |-> <<>>, dict |-> d]

\* The slot recorded for a batch call, which serves every slot of its source.
AllSlots == [layer |-> "*", prop |-> "*"]

\* One generator.generate(context) call: the source, the slot it was made for,
\* context.inputs and context.count, and the number of values returned.
Call(source, slot_name, inputs, count, n) ==
    [source |-> source, slot |-> slot_name, inputs |-> inputs, count |-> count,
     returned |-> n]

\* Mutant of E_Resolve: the failure of a generator called for a slot that is
\* toggled off is swallowed.
E_ResolveOffSwallowed ==
    /\ impl = "engine"
    /\ e_pc = "resolve"
    /\ e_src <= Len(SourceOrder(e_config))
    /\ LET source == SourceOrder(e_config)[e_src]
           slots == slots_by_source(e_config, source)
       IN
       IF source.ns \in {"style", "cta"}
       THEN LET out == IF source.ns = "style"
                       THEN _resolve_style_source(source, e_config, e_count)
                       ELSE _resolve_cta_source(source, e_config, e_count)
            IN  /\ IF out.raised
                   THEN e_pc' = "raised" /\ UNCHANGED <<e_results, e_src>>
                   ELSE /\ e_results' = (source :> ListResult(out.values)) @@ e_results
                        /\ e_src' = e_src + 1
                        /\ UNCHANGED e_pc
                /\ UNCHANGED <<e_slot, e_calls, e_inputs>>
       ELSE IF AnyBatch(slots)
       THEN \E up \in BOOLEAN : \E llm_lines \in LlmLineCounts(e_count) :
            LET merged_inputs == MergeInputs(e_inputs, slots, 1)
                context == GenerationContext(merged_inputs, e_count)
                out == generate(source, context, up, llm_lines)
            IN  /\ e_calls' = Append(e_calls, Call(source, AllSlots, merged_inputs, e_count,
                                                Len(out.values)))
                /\ e_inputs' = CallerInputs(e_inputs, merged_inputs)
                /\ IF out.raised
                   THEN e_pc' = "raised" /\ UNCHANGED <<e_results, e_src>>
                   ELSE /\ e_results' = (source :> ListResult(out.values)) @@ e_results
                        /\ e_src' = e_src + 1
                        /\ UNCHANGED e_pc
                /\ UNCHANGED e_slot
       ELSE \E up \in BOOLEAN : \E llm_lines \in LlmLineCounts(1) :
            LET slot == slots[e_slot]
                merged_inputs == MergeInputs(e_inputs, <<slot>>, 1)
                context == GenerationContext(merged_inputs, 1)
                out == generate(source, context, up, llm_lines)
                sofar == IF source \in DOMAIN e_results THEN e_results[source].dict ELSE <<>>
            IN  /\ e_calls' = Append(e_calls, Call(source, slot.name, merged_inputs, 1,
                                                Len(out.values)))
                /\ e_inputs' = CallerInputs(e_inputs, merged_inputs)
                /\ IF (out.raised \/ out.values = <<>>)
                      /\ ~(slot.optional /\ ~Get(e_inputs, "include_header", TRUE))
                   THEN e_pc' = "raised" /\ UNCHANGED <<e_results, e_src, e_slot>>
                   ELSE /\ e_results' = (source :> DictResult((slot.name :> IF out.values = <<>> THEN 0
                                                                      ELSE out.values[1]) @@ sofar))
                                        @@ e_results
                        /\ IF e_slot < Len(slots)
                           THEN e_slot' = e_slot + 1 /\ UNCHANGED e_src
                           ELSE e_slot' = 1 /\ e_src' = e_src + 1
                        /\ UNCHANGED e_pc
    /\ UNCHANGED <<e_config, e_count, e_i, e_job_ids, e_p, e_attempt, e_creatives, e_return,
                   e_submit_log, e_poll_log>>
    /\ UNCHANGED <<impl, orch_vars, svc_vars, rest_vars>>

\* _resolve_sources, one step of its loops: a style or cta source, the single
\* call of a batch source, or the call for the next slot of a per-slot source.
E_Resolve ==
    /\ impl = "engine"
    /\ e_pc = "resolve"
    /\ e_src <= Len(SourceOrder(e_config))
    /\ LET source == SourceOrder(e_config)[e_src]
           slots == slots_by_source(e_config, source)
       IN
       IF source.ns \in {"style", "cta"}
       THEN LET out == IF source.ns = "style"
                       THEN _resolve_style_source(source, e_config, e_count)
                       ELSE _resolve_cta_source(source, e_config, e_count)
            IN  /\ IF out.raised
                   THEN e_pc' = "raised" /\ UNCHANGED <<e_results, e_src>>
                   ELSE /\ e_results' = (source :> ListResult(out.values)) @@ e_results
                        /\ e_src' = e_src + 1
                        /\ UNCHANGED e_pc
                /\ UNCHANGED <<e_slot, e_calls, e_inputs>>
       ELSE IF AnyBatch(slots)
       THEN \E up \in BOOLEAN : \E llm_lines \in LlmLineCounts(e_count) :
            LET merged_inputs == MergeInputs(e_inputs, slots, 1)
                context == GenerationContext(merged_inputs, e_count)
                out == generate(source, context, up, llm_lines)
            IN  /\ e_calls' = Append(e_calls, Call(source, AllSlots, merged_inputs, e_count,
                                                Len(out.values)))
                /\ e_inputs' = CallerInputs(e_inputs, merged_inputs)
                /\ IF out.raised
                   THEN e_pc' = "raised" /\ UNCHANGED <<e_results, e_src>>
                   ELSE /\ e_results' = (source :> ListResult(out.values)) @@ e_results
                        /\ e_src' = e_src + 1
                        /\ UNCHANGED e_pc
                /\ UNCHANGED e_slot
       ELSE \E up \in BOOLEAN : \E llm_lines \in LlmLineCounts(1) :
            LET slot == slots[e_slot]
                merged_inputs == MergeInputs(e_inputs, <<slot>>, 1)
                context == GenerationContext(merged_inputs, 1)
                out == generate(source, context, up, llm_lines)
                sofar == IF source \in DOMAIN e_results THEN e_results[source].dict ELSE <<>>
            IN  /\ e_calls' = Append(e_calls, Call(source, slot.name, merged_inputs, 1,
                                                Len(out.values)))
                /\ e_inputs' = CallerInputs(e_inputs, merged_inputs)
                /\ IF out.raised \/ out.values = <<>>
                   THEN e_pc' = "raised" /\ UNCHANGED <<e_results, e_src, e_slot>>
                   ELSE /\ e_results' = (source :> DictResult((slot.name :> out.values[1]) @@ sofar))
                                        @@ e_results
                        /\ IF e_slot < Len(slots)
                           THEN e_slot' = e_slot + 1 /\ UNCHANGED e_src
                           ELSE e_slot' = 1 /\ e_src' = e_src + 1
                        /\ UNCHANGED e_pc
    /\ UNCHANGED <<e_config, e_count, e_i, e_job_ids, e_p, e_attempt, e_creatives, e_return,
                   e_submit_log, e_poll_log>>
    /\ UNCHANGED <<impl, orch_vars, svc_vars, rest_vars>>

\* _resolve_sources returns; _build_creatives starts its submit loop.
E_EndResolve ==
    /\ impl = "engine"
    /\ e_pc = "resolve"
    /\ e_src > Len(SourceOrder(e_config))
    /\ e_pc' = "submit"
    /\ UNCHANGED <<eng_args, e_results, e_src, e_slot, e_i, e_job_ids, e_p, e_attempt,
                   e_creatives, e_return, e_calls, e_submit_log, e_poll_log>>
    /\ UNCHANGED <<impl, orch_vars, svc_vars, rest_vars>>


\* f"include_{slot.name.split('.')[0]}"
toggle_name(layer) ==
    CASE layer = "header" -> "include_header"
      [] layer = "main_text" -> "include_main_text"
      [] layer = "image" -> "include_image"
      [] layer = "cta" -> "include_cta"
      [] OTHER -> "include_" \o layer

\* Mutant of ToggledOff: no slot is ever skipped.
NeverToggledOff(slot, inputs) == FALSE

\* _build_layers, the skip test of one slot.
ToggledOff(slot, inputs) ==
    slot.optional /\ ~Get(inputs, toggle_name(slot.name.layer), TRUE)

ByCreative(slot) ==
    slot.batch_creatives \/ slot.source.ns = "style" \/ slot.source.ns = "cta"

\* _build_layers, the value lookup of one slot: results[creative_idx] of a
\* list, or results[slot.name] of a dict; a wrong shape, a short list or a
\* missing key raises.
LookupFails(slot, results, creative_idx) ==
    IF ByCreative(slot)
    THEN results.shape # "list" \/ creative_idx >= Len(results.list)
    ELSE results.shape # "dict" \/ slot.name \notin DOMAIN results.dict

\* Mutant of Lookup: every creative gets the first value of a list.
LookupFirst(slot, results, creative_idx) ==
    IF ByCreative(slot) THEN results.list[1] ELSE results.dict[slot.name]

Lookup(slot, results, creative_idx) ==
    IF ByCreative(slot) THEN results.list[creative_idx + 1] ELSE results.dict[slot.name]

\* layers[layer_name][prop_name] = value
SetLayer(layers, name, value) ==
    IF name.layer \in DOMAIN layers
    THEN [layers EXCEPT ![name.layer] = (name.prop :> value) @@ @]
    ELSE (name.layer :> (name.prop :> value)) @@ layers

\* _build_layers, from slot k on, with the layers built so far.
RECURSIVE BuildLayersFrom(_, _, _, _, _, _)
BuildLayersFrom(slots, k, source_results, inputs, creative_idx, layers) ==
    IF k > Len(slots) THEN [raised |-> FALSE, layers |-> layers]
    ELSE LET slot == slots[k] IN
         IF ToggledOff(slot, inputs)
         THEN BuildLayersFrom(slots, k + 1, source_results, inputs, creative_idx, layers)
         ELSE IF LookupFails(slot, source_results[slot.source], creative_idx)
         THEN [raised |-> TRUE, layers |-> <<>>]
         ELSE BuildLayersFrom(slots, k + 1, source_results, inputs, creative_idx,
                SetLayer(layers, slot.name,
                         Lookup(slot, source_results[slot.source], creative_idx)))

\* CreativeEngine._build_layers
_build_layers(config, source_results, inputs, creative_idx) ==
    BuildLayersFrom(config.slots, 1, source_results, inputs, creative_idx, <<>>)

\* ---------------------------------------------- the v2 engine's resolution
\* generator_sources: the set of sources the slots name.
generator_sources(config) == {config.slots[k].source : k \in 1..Len(config.slots)}

\* generator_configs[source]: the generator_config of the last slot of the
\* source that has one.
RECURSIVE GeneratorConfigFrom(_, _, _)
GeneratorConfigFrom(slots, k, source) ==
    IF k = 0 THEN NoConfig
    ELSE IF slots[k].source = source /\ slots[k].generator_config # NoConfig
         THEN slots[k].generator_config
    ELSE GeneratorConfigFrom(slots, k - 1, source)
generator_configs(config, source) ==
    GeneratorConfigFrom(config.slots, Len(config.slots), source)

\* The sources get_generator_class knows.
Registered(source) ==
    \/ source.ns = "text" /\ source.field \in {"header", "main_text"}
    \/ source.ns = "image" /\ source.field \in {"cluster", "product"}

\* v2 _resolve_sources, one iteration of its loop over the set of sources (a
\* set: any order): one generator call with count = N for the source, whatever
\* the number of slots naming it; a source without a generator raises.
V2_Resolve ==
    /\ impl = "engine_v2"
    /\ e_pc = "resolve"
    /\ \E source \in generator_sources(e_config) \ DOMAIN e_results :
         IF ~Registered(source)
         THEN e_pc' = "raised" /\ UNCHANGED <<e_results, e_calls, e_inputs>>
         ELSE \E up \in BOOLEAN : \E llm_lines \in LlmLineCounts(e_count) :
              LET merged_inputs == generator_configs(e_config, source) @@ e_inputs
                  out == generate(source, GenerationContext(merged_inputs, e_count),
                                  up, llm_lines)
              IN  /\ e_calls' = Append(e_calls,
                                       Call(source, AllSlots, merged_inputs, e_count,
                                            Len(out.values)))
                  /\ e_inputs' = CallerInputs(e_inputs, merged_inputs)
                  /\ IF out.raised
                     THEN e_pc' = "raised" /\ UNCHANGED e_results
                     ELSE /\ e_results' = (source :> ListResult(out.values)) @@ e_results
                          /\ UNCHANGED e_pc
    /\ UNCHANGED <<e_config, e_count, e_src, e_slot, e_i, e_job_ids, e_p, e_attempt,
                   e_creatives, e_return, e_submit_log, e_poll_log>>
    /\ UNCHANGED <<impl, orch_vars, svc_vars, rest_vars>>

\* v2 _resolve_sources returns; _build_creatives starts its submit loop.
V2_EndResolve ==
    /\ impl = "engine_v2"
    /\ e_pc = "resolve"
    /\ generator_sources(e_config) \subseteq DOMAIN e_results
    /\ e_pc' = "submit"
    /\ UNCHANGED <<eng_args, e_results, e_src, e_slot, e_i, e_job_ids, e_p, e_attempt,
                   e_creatives, e_return, e_calls, e_submit_log, e_poll_log>>
    /\ UNCHANGED <<impl, orch_vars, svc_vars, rest_vars>>

\* v2 _build_layers, from slot k on: results[index % len(results)] for every
\* slot that is not toggled off; an empty result list raises.
RECURSIVE BuildLayersV2From(_, _, _, _, _, _)
BuildLayersV2From(slots, k, source_results, inputs, index, layers) ==
    IF k > Len(slots) THEN [raised |-> FALSE, layers |-> layers]
    ELSE LET slot == slots[k] IN
         IF ToggledOff(slot, inputs)
         THEN BuildLayersV2From(slots, k + 1, source_results, inputs, index, layers)
         ELSE LET results == source_results[slot.source].list IN
              IF results = <<>> THEN [raised |-> TRUE, layers |-> <<>>]
              ELSE BuildLayersV2From(slots, k + 1, source_results, inputs, index,
                     SetLayer(layers, slot.name, results[(index % Len(results)) + 1]))

_build_layers_v2(config, source_results, inputs, index) ==
    BuildLayersV2From(config.slots, 1, source_results, inputs, index, <<>>)

\* The engines that share _build_creatives and _poll_job.
Engines == {"engine", "engine_v2"}

\* Mutant of VariantFor: always the first variant.
VariantFirst(config, i) == [raised |-> FALSE, variant |-> config.variants[1]]

\* _build_creatives, the variant of creative i: variant_sequence[i] when a
\* sequence is configured, else the first key of variants; an index past the
\* sequence or a label that is no variant raises.
VariantFor(config, i) ==
    IF config.variant_sequence # <<>>
    THEN IF i >= Len(config.variant_sequence) THEN [raised |-> TRUE, variant |-> ""]
         ELSE IF ~InSeq(config.variants, config.variant_sequence[i + 1])
              THEN [raised |-> TRUE, variant |-> ""]
         ELSE [raised |-> FALSE, variant |-> config.variant_sequence[i + 1]]
    ELSE [raised |-> FALSE, variant |-> config.variants[1]]

EngineIds == {e_job_ids[k].job_id : k \in 1..Len(e_job_ids)}

\* _build_creatives, one iteration of the submit loop: the variant, the layers
\* of creative i, the submit call; the answer (an id or None) is kept as is.
E_Submit ==
    /\ impl \in Engines
    /\ e_pc = "submit"
    /\ e_i < e_count
    /\ LET v == VariantFor(e_config, e_i)
           built == IF impl = "engine"
                    THEN _build_layers(e_config, e_results, e_inputs, e_i)
                    ELSE _build_layers_v2(e_config, e_results, e_inputs, e_i)
       IN  IF v.raised \/ built.raised
           THEN /\ e_pc' = "raised"
                /\ UNCHANGED <<e_i, e_job_ids, e_submit_log>>
           ELSE \E job_id \in SubmitAnswers(EngineIds) :
                /\ e_job_ids' = Append(e_job_ids,
                      [job_id |-> job_id, layers |-> built.layers, variant |-> v.variant])
                /\ e_submit_log' = Append(e_submit_log, [creative |-> e_i, job_id |-> job_id])
                /\ e_i' = e_i + 1
                /\ UNCHANGED e_pc
    /\ UNCHANGED <<eng_args, e_results, e_src, e_slot, e_p, e_attempt, e_creatives,
                   e_return, e_calls, e_poll_log>>
    /\ UNCHANGED <<impl, orch_vars, svc_vars, rest_vars>>

\* Mutant of E_EndSubmit: the poll loop starts after the first submission.
E_EndSubmitEarly ==
    /\ impl \in Engines
    /\ e_pc = "submit"
    /\ e_i >= 1
    /\ e_pc' = "poll"
    /\ UNCHANGED <<eng_args, e_results, e_src, e_slot, e_i, e_job_ids, e_p, e_attempt,
                   e_creatives, e_return, e_calls, e_submit_log, e_poll_log>>
    /\ UNCHANGED <<impl, orch_vars, svc_vars, rest_vars>>

\* _build_creatives, the submit loop is over; the poll loop starts.
E_EndSubmit ==
    /\ impl \in Engines
    /\ e_pc = "submit"
    /\ e_i = e_count
    /\ e_pc' = "poll"
    /\ UNCHANGED <<eng_args, e_results, e_src, e_slot, e_i, e_job_ids, e_p, e_attempt,
                   e_creatives, e_return, e_calls, e_submit_log, e_poll_log>>
    /\ UNCHANGED <<impl, orch_vars, svc_vars, rest_vars>>

\* Creative(creative_type, variant, layers, creative_url)
Creative(creative_type, variant, layers, creative_url) ==
    [creative_type |-> creative_type, variant |-> variant, layers |-> layers,
     creative_url |-> creative_url]

\* The answers that end a job's polling in _poll_job.
Terminal(ans) == (ans.status = "finished" /\ ans.url # 0) \/ ans.status = "error"

\* Mutant of E_Poll: an error answer skips the job instead of raising.
E_PollSkipError ==
    /\ impl \in Engines
    /\ e_pc = "poll"
    /\ e_p <= Len(e_job_ids)
    /\ e_attempt < max_attempts
    /\ LET job == e_job_ids[e_p] IN
       \E ans \in PollAnswers(job.job_id) :
         /\ e_poll_log' = IF Terminal(ans)
                           THEN Append(e_poll_log, [job_id |-> job.job_id,
                                                    status |-> ans.status, url |-> ans.url])
                           ELSE e_poll_log
         /\ IF ans.status = "finished" /\ ans.url # 0
            THEN /\ e_creatives' = Append(e_creatives,
                      Creative(e_config.name, job.variant, job.layers, ans.url))
                 /\ e_p' = e_p + 1
                 /\ e_attempt' = 0
                 /\ UNCHANGED e_pc
            ELSE IF ans.status = "error"
            THEN /\ e_p' = e_p + 1
                 /\ e_attempt' = 0
                 /\ UNCHANGED <<e_pc, e_creatives>>
            ELSE /\ e_attempt' = e_attempt + 1
                 /\ UNCHANGED <<e_pc, e_p, e_creatives>>
    /\ UNCHANGED <<eng_args, e_results, e_src, e_slot, e_i, e_job_ids, e_return, e_calls,
                   e_submit_log>>
    /\ UNCHANGED <<impl, orch_vars, svc_vars, rest_vars>>


\* Mutant of E_Poll: the attempts of a finished job count against the next.
E_PollSharedCeiling ==
    /\ impl \in Engines
    /\ e_pc = "poll"
    /\ e_p <= Len(e_job_ids)
    /\ e_attempt < max_attempts
    /\ LET job == e_job_ids[e_p] IN
       \E ans \in PollAnswers(job.job_id) :
         /\ e_poll_log' = IF Terminal(ans)
                           THEN Append(e_poll_log, [job_id |-> job.job_id,
                                                    status |-> ans.status, url |-> ans.url])
                           ELSE e_poll_log
         /\ IF ans.status = "finished" /\ ans.url # 0
            THEN /\ e_creatives' = Append(e_creatives,
                      Creative(e_config.name, job.variant, job.layers, ans.url))
                 /\ e_p' = e_p + 1
                 /\ UNCHANGED <<e_pc, e_attempt>>
            ELSE IF ans.status = "error"
            THEN /\ e_pc' = "raised"
                 /\ UNCHANGED <<e_p, e_attempt, e_creatives>>
            ELSE /\ e_attempt' = e_attempt + 1
                 /\ UNCHANGED <<e_pc, e_p, e_creatives>>
    /\ UNCHANGED <<eng_args, e_results, e_src, e_slot, e_i, e_job_ids, e_return, e_calls,
                   e_submit_log>>
    /\ UNCHANGED <<impl, orch_vars, svc_vars, rest_vars>>

\* _poll_job, one attempt for the job the poll loop is at: finished with a URL
\* ends the job's polling and appends its Creative; error raises; anything
\* else sleeps and tries again.
E_Poll ==
    /\ impl \in Engines
    /\ e_pc = "poll"
    /\ e_p <= Len(e_job_ids)
    /\ e_attempt < max_attempts
    /\ LET job == e_job_ids[e_p] IN
       \E ans \in PollAnswers(job.job_id) :
         /\ e_poll_log' = IF Terminal(ans)
                           THEN Append(e_poll_log, [job_id |-> job.job_id,
                                                    status |-> ans.status, url |-> ans.url])
                           ELSE e_poll_log
         /\ IF ans.status = "finished" /\ ans.url # 0
            THEN /\ e_creatives' = Append(e_creatives,
                      Creative(e_config.name, job.variant, job.layers, ans.url))
                 /\ e_p' = e_p + 1
                 /\ e_attempt' = 0
                 /\ UNCHANGED e_pc
            ELSE IF ans.status = "error"
            THEN /\ e_pc' = "raised"
                 /\ UNCHANGED <<e_p, e_attempt, e_creatives>>
            ELSE /\ e_attempt' = e_attempt + 1
                 /\ UNCHANGED <<e_pc, e_p, e_creatives>>
    /\ UNCHANGED <<eng_args, e_results, e_src, e_slot, e_i, e_job_ids, e_return, e_calls,
                   e_submit_log>>
    /\ UNCHANGED <<impl, orch_vars, svc_vars, rest_vars>>

\* Mutant of E_Timeout: the attempts used up, the count starts over.
E_TimeoutRetry ==
    /\ impl \in Engines
    /\ e_pc = "poll"
    /\ e_p <= Len(e_job_ids)
    /\ e_attempt = max_attempts
    /\ e_attempt' = 0
    /\ UNCHANGED <<eng_args, e_results, e_src, e_slot, e_i, e_job_ids, e_p, e_pc,
                   e_creatives, e_return, e_calls, e_submit_log, e_poll_log>>
    /\ UNCHANGED <<impl, orch_vars, svc_vars, rest_vars>>

\* _poll_job, the attempts are used up: "Placid job timed out".
E_Timeout ==
    /\ impl \in Engines
    /\ e_pc = "poll"
    /\ e_p <= Len(e_job_ids)
    /\ e_attempt = max_attempts
    /\ e_pc' = "raised"
    /\ UNCHANGED <<eng_args, e_results, e_src, e_slot, e_i, e_job_ids, e_p, e_attempt,
                   e_creatives, e_return, e_calls, e_submit_log, e_poll_log>>
    /\ UNCHANGED <<impl, orch_vars, svc_vars, rest_vars>>

\* _build_creatives returns creatives; generate returns them.
E_Return ==
    /\ impl \in Engines
    /\ e_pc = "poll"
    /\ e_p > Len(e_job_ids)
    /\ e_pc' = "returned"
    /\ e_return' = e_creatives
    /\ UNCHANGED <<eng_args, e_results, e_src, e_slot, e_i, e_job_ids, e_p, e_attempt,
                   e_creatives, e_calls, e_submit_log, e_poll_log>>
    /\ UNCHANGED <<impl, orch_vars, svc_vars, rest_vars>>

\* ------------------------------------------------- the tabular-output parser
\* The number of rows the parsers expect: stands for EXPECTED_ROWS = 12 (the
\* literal 12 of the range test and of range(1, 13) moves with it).
ExpectedRows == 3
\* Largest number of lines of a raw text.
MaxLines == 4

\* A raw text is its list of lines (content.split('\n')); a line is its list
\* of tab-separated cells; a cell is a run of digits or any other text.
Num(k) == [digits |-> TRUE, num |-> k, txt |-> ToString(k)]
Txt(t) == [digits |-> FALSE, num |-> 0, txt |-> t]

IsEmptyCell(c) == c.txt = ""

\* The markers the header tests look for in line.lower().
Marks(c) ==
    CASE c.txt = "Variation #" -> {"variation", "#"}
      [] c.txt = "Text" -> {"text"}
      [] c.txt = "Header" -> {"header"}
      [] c.txt = "Main Text" -> {"text"}
      [] c.txt = "Variation text" -> {"variation", "text"}
      [] c.txt = "### Topic" -> {"#"}
      [] c.txt = "Index" -> {"index"}
      [] OTHER -> {}

\* line.strip(): leading and trailing whitespace goes, empty cells with it.
RECURSIVE StripLeft(_)
StripLeft(line) ==
    IF line = <<>> THEN <<>>
    ELSE IF IsEmptyCell(Head(line)) THEN StripLeft(Tail(line))
    ELSE line

RECURSIVE StripRight(_)
StripRight(line) ==
    IF line = <<>> THEN <<>>
    ELSE IF IsEmptyCell(line[Len(line)]) THEN StripRight(SubSeq(line, 1, Len(line) - 1))
    ELSE line

Strip(line) == StripRight(StripLeft(line))

\* marker in lower
Mentions(line, marker) == \E k \in 1..Len(line) : marker \in Marks(line[k])

\* line.startswith('#')
StartsWithHash(line) == line # <<>> /\ line[1].txt = "### Topic"

\* lower.startswith('index')
StartsWithIndex(line) == line # <<>> /\ "index" \in Marks(line[1])

\* The header-row test of TSVParser.parse and TextService._parse_tsv.
IsHeaderRow(line) ==
    \/ Mentions(line, "variation") /\ (Mentions(line, "#") \/ Mentions(line, "text"))
    \/ StartsWithIndex(line) /\ Mentions(line, "text")

\* The header-row test of TextService._parse_paired_tsv.
IsPairedHeaderRow(line) == Mentions(line, "variation") /\ Mentions(line, "header")

\* The text of cells, kept as its tab-separated pieces.
TextOf(cells) == [k \in 1..Len(cells) |-> cells[k].txt]

TSVRow(index, text) == [index |-> index, text |-> text]
TSVRowPaired(index, header, main_text) ==
    [index |-> index, header |-> header, main_text |-> main_text]

\* Mutant of RowOfLine: the index of a row is not range-checked.
RowOfLineAnyIndex(raw_line) ==
    LET line == Strip(raw_line) IN
    IF line = <<>> THEN <<>>
    ELSE IF StartsWithHash(line) THEN <<>>
    ELSE IF IsHeaderRow(line) THEN <<>>
    ELSE IF ~(line[1].digits /\ Len(line) >= 2) THEN <<>>
    ELSE << TSVRow(line[1].num, TextOf(StripLeft(Tail(line)))) >>

\* One line of TSVParser.parse's loop: the rows it appends (none or one).
\* re.match(r'^(\d+)\s+(.+)$', line) needs leading digits and text after them.
RowOfLine(raw_line) ==
    LET line == Strip(raw_line) IN
    IF line = <<>> THEN <<>>
    ELSE IF StartsWithHash(line) THEN <<>>
    ELSE IF IsHeaderRow(line) THEN <<>>
    ELSE IF ~(line[1].digits /\ Len(line) >= 2) THEN <<>>
    ELSE LET index == line[1].num
             text == TextOf(StripLeft(Tail(line)))
         IN  IF 1 <= index /\ index <= ExpectedRows /\ text # <<>>
             THEN << TSVRow(index, text) >>
             ELSE <<>>

\* One line of _parse_paired_tsv's loop: split on tabs, at least three parts,
\* an integer first, a non-empty header and main text.
PairedRowOfLine(raw_line) ==
    LET line == Strip(raw_line) IN
    IF line = <<>> THEN <<>>
    ELSE IF StartsWithHash(line) THEN <<>>
    ELSE IF IsPairedHeaderRow(line) THEN <<>>
    ELSE IF Len(line) < 3 THEN <<>>
    ELSE IF ~line[1].digits THEN <<>>
    ELSE LET index == line[1].num
             header == line[2].txt
             main_text == line[3].txt
         IN  IF 1 <= index /\ index <= ExpectedRows /\ header # "" /\ main_text # ""
             THEN << TSVRowPaired(index, header, main_text) >>
             ELSE <<>>

\* The scanning loop: the rows appended, in line order.
RECURSIVE ScanFrom(_, _, _)
ScanFrom(content, k, paired) ==
    IF k > Len(content) THEN <<>>
    ELSE (IF paired THEN PairedRowOfLine(content[k]) ELSE RowOfLine(content[k]))
         \o ScanFrom(content, k + 1, paired)

\* sorted(rows, key=lambda r: r.index): a stable sort.
RECURSIVE InsertRow(_, _)
InsertRow(sorted, row) ==
    IF sorted = <<>> THEN <<row>>
    ELSE IF row.index < Head(sorted).index THEN <<row>> \o sorted
    ELSE <<Head(sorted)>> \o InsertRow(Tail(sorted), row)

RECURSIVE SortRows(_)
SortRows(rows) ==
    IF rows = <<>> THEN <<>>
    ELSE InsertRow(SortRows(SubSeq(rows, 1, Len(rows) - 1)), rows[Len(rows)])

\* Mutant of IndicesOk: any indices pass.
IndicesAny(rows) == TRUE

\* sorted(row.index for row in rows) == list(range(1, 13))
IndicesOk(rows) ==
    LET sorted == SortRows(rows) IN
    [k \in 1..Len(sorted) |-> sorted[k].index] = [k \in 1..ExpectedRows |-> k]

\* TSVParseError(message, raw_output)
TSVParseError(message, content) ==
    [raised |-> TRUE, message |-> message, raw_output |-> content, rows |-> <<>>]

Parsed(rows) == [raised |-> FALSE, message |-> "", raw_output |-> <<>>, rows |-> rows]

\* Mutant of Validate: the lines of the text are counted, not the rows.
ValidateLines(rows, content) ==
    IF Len(content) # ExpectedRows THEN TSVParseError("Expected rows", content)
    ELSE IF ~IndicesOk(rows) THEN TSVParseError("Expected indices", content)
    ELSE Parsed(SortRows(rows))

\* The validation after the scan: the row count, the index set, the sort.
Validate(rows, content) ==
    IF Len(rows) # ExpectedRows THEN TSVParseError("Expected rows", content)
    ELSE IF ~IndicesOk(rows) THEN TSVParseError("Expected indices", content)
    ELSE Parsed(SortRows(rows))

\* TSVParser.parse
parse(content) == Validate(ScanFrom(content, 1, FALSE), content)

\* TextService._parse_tsv: the same scan and validation.
_parse_tsv(content) == Validate(ScanFrom(content, 1, FALSE), content)

\* TextService._parse_paired_tsv
_parse_paired_tsv(content) == Validate(ScanFrom(content, 1, TRUE), content)

\* The lines a raw text is written from: a blank line, a markdown heading, the
\* header row, a line of prose, a numbered line that reads as a header row,
\* rows of every expected index, and a row of index 0 and of the index one
\* past the expected count.
CommonLines == { <<>>, <<Txt("### Topic")>>, <<Txt("Here are the lines")>> }

PlainLines ==
    CommonLines
    \cup { <<Txt("Variation #"), Txt("Text")>>, <<Num(1), Txt("Variation text")>> }
    \cup { <<Num(k), Txt(t)>> : k \in 1..ExpectedRows, t \in {"Foo", "Bar"} }
    \cup { <<Num(k), Txt("Foo")>> : k \in {0, ExpectedRows + 1} }

PairedLines ==
    CommonLines
    \cup { <<Txt("Variation #"), Txt("Header"), Txt("Main Text")>>, <<Num(1), Txt("Foo")>> }
    \cup { <<Num(k), Txt(h), Txt("Main")>> : k \in 1..ExpectedRows, h \in {"Head", ""} }
    \cup { <<Num(k), Txt("Head"), Txt("Main")>> : k \in {0, ExpectedRows + 1} }

Lines(variant) == IF variant = "paired" THEN PairedLines ELSE PlainLines

NoOutcome == [raised |-> FALSE, message |-> "", raw_output |-> <<>>, rows |-> <<>>]

ParIdle ==
    /\ p_variant = "plain"
    /\ p_content = <<>>
    /\ p_pc = "idle"
    /\ p_out = NoOutcome

ParInit ==
    /\ p_variant \in {"plain", "paired"}
    /\ p_content = <<>>
    /\ p_pc = "compose"
    /\ p_out = NoOutcome

\* The text backend writes one more line of its output.
P_AddLine ==
    /\ p_pc = "compose"
    /\ Len(p_content) < MaxLines
    /\ \E line \in Lines(p_variant) : p_content' = Append(p_content, line)
    /\ UNCHANGED <<p_variant, p_pc, p_out>>
    /\ UNCHANGED <<impl, orch_vars, svc_vars, eng_vars, text_vars, pool_vars, req_vars, poll_vars,
                   gen_vars, gem_vars, hand_vars>>

\* The parser of the variant is called on the text.
P_Parse ==
    /\ p_pc = "compose"
    /\ p_pc' = "parsed"
    /\ p_out' = IF p_variant = "paired" THEN _parse_paired_tsv(p_content)
                ELSE parse(p_content)
    /\ UNCHANGED <<p_variant, p_content>>
    /\ UNCHANGED <<impl, orch_vars, svc_vars, eng_vars, text_vars, pool_vars, req_vars, poll_vars,
                   gen_vars, gem_vars, hand_vars>>


\* --------------------------------------------------- the staged text pipeline
\* Largest max_retries a pipeline is run with (the default is 2).
MaxRetries == 2

STAGES == <<"creator", "editor", "final_toucher">>

\* The stage name the failure message carries: TextService passes the lower
\* case name, TextGenerationPipeline the upper case one.
StageName(which, k) ==
    IF which = "service" THEN STAGES[k]
    ELSE IF which = "product_cluster"
    THEN CASE k = 1 -> "product_cluster_creator" [] k = 2 -> "product_cluster_editor"
           [] OTHER -> "product_cluster_final"
    ELSE CASE k = 1 -> "CREATOR" [] k = 2 -> "EDITOR" [] OTHER -> "FINAL_TOUCHER"

\* Mutant of Attempts: max_retries attempts in all.
AttemptsNoExtra(max_retries) == max_retries

\* for attempt in range(max_retries + 1)
Attempts(max_retries) == max_retries + 1

\* Outputs of the text backend: the table in order, the table upside down
\* under a heading and a header row, a table with a row missing, a table with
\* an index twice.
TableInOrder == [k \in 1..ExpectedRows |-> <<Num(k), Txt("Foo")>>]
TableReversed ==
    << <<Txt("### Topic")>>, <<Txt("Variation #"), Txt("Text")>> >>
    \o [k \in 1..ExpectedRows |-> <<Num(ExpectedRows + 1 - k), Txt("Bar")>>]
TableWithGap == SubSeq(TableInOrder, 1, ExpectedRows - 1)
TableWithDuplicate == <<TableInOrder[1]>> \o SubSeq(TableInOrder, 1, ExpectedRows - 1)

\* Three-column outputs: the paired table upside down under its header row,
\* and the paired table with a row missing.
PairedReversed ==
    << <<Txt("Variation #"), Txt("Header"), Txt("Main Text")>> >>
    \o [k \in 1..ExpectedRows |-> <<Num(ExpectedRows + 1 - k), Txt("Head"), Txt("Main")>>]
PairedWithGap == SubSeq(PairedReversed, 1, ExpectedRows)
PairedWithDuplicate == Append(PairedWithGap, PairedReversed[ExpectedRows])

BackendOutputs == {TableInOrder, TableReversed, TableWithGap, TableWithDuplicate}
PairedOutputs == {PairedReversed, PairedWithGap, PairedWithDuplicate}

\* The exceptions a backend call raises.
BackendErrors == {"APIConnectionError", "RateLimitError"}

\* What one backend call does: it returns a text, or the call itself fails.
BackendAnswers(which) ==
    {[failed |-> FALSE, error |-> "", output |-> o] :
        o \in IF which = "product_cluster" THEN PairedOutputs ELSE BackendOutputs}
    \cup {[failed |-> TRUE, error |-> e, output |-> <<>>] : e \in BackendErrors}

\* The validation of a stage's output: TextService._parse_tsv or TSVParser.parse.
validate(which, output) ==
    IF which = "service" THEN _parse_tsv(output)
    ELSE IF which = "product_cluster" THEN _parse_paired_tsv(output)
    ELSE parse(output)

\* Mutant of Caught: the handler catches every exception.
CaughtAny(which, answer) == answer.failed \/ validate(which, answer.output).raised

\* except TSVParseError: the handler of the retry loop catches the failure of
\* the validation, and nothing the backend call raises.
Caught(which, answer) == ~answer.failed /\ validate(which, answer.output).raised

\* Mutant of _format_tsv: the rows alone, without the heading and header row.
_format_tsv_rows_only(topic, rows) ==
    [k \in 1..Len(rows) |->
        <<Num(rows[k].index)>> \o [j \in 1..Len(rows[k].text) |-> Txt(rows[k].text[j])]]

\* Mutant of _format_tsv: the row lines are written text first, index last.
_format_tsv_text_first(topic, rows) ==
    << <<Txt(topic)>>, <<>>, <<Txt("Variation #"), Txt("Text")>> >>
    \o [k \in 1..Len(rows) |->
           [j \in 1..Len(rows[k].text) |-> Txt(rows[k].text[j])] \o <<Num(rows[k].index)>>]

\* TextService._format_tsv / TSVParser.format_for_next_stage: the heading with
\* the topic, a blank line, the header row, then one index<TAB>text line per
\* row, in the order of rows.
_format_tsv(topic, rows) ==
    << <<Txt(topic)>>, <<>>, <<Txt("Variation #"), Txt("Text")>> >>
    \o [k \in 1..Len(rows) |->
           <<Num(rows[k].index)>> \o [j \in 1..Len(rows[k].text) |-> Txt(rows[k].text[j])]]

\* TextService._format_paired_tsv: the heading, a blank line, the three-column
\* header row, then one index<TAB>header<TAB>main_text line per row.
_format_paired_tsv(topic, rows) ==
    << <<Txt(topic)>>, <<>>, <<Txt("Variation #"), Txt("Header"), Txt("Main Text")>> >>
    \o [k \in 1..Len(rows) |->
           <<Num(rows[k].index), Txt(rows[k].header), Txt(rows[k].main_text)>>]

\* The heading line written for the topic of the run.
TopicHeading == "### Topic"

\* The table appended to the user message of stage k: none for the first
\* stage, else the rows parsed from the previous stage's output, formatted.
PrevTsv(which, k, outputs) ==
    IF k = 1 THEN <<>>
    ELSE IF which = "product_cluster"
    THEN _format_paired_tsv(TopicHeading, validate(which, outputs[k - 1]).rows)
    ELSE _format_tsv(TopicHeading, validate(which, outputs[k - 1]).rows)

\* The TSVParseError the handler of the retry loop keeps as last_error, as the
\* text the failure message is formatted with.
LastError(which, answer) ==
    IF ~answer.failed /\ validate(which, answer.output).raised
    THEN validate(which, answer.output).message
    ELSE ""

\* What a call came to: the exception it raised, or whether its output passed
\* the validation.
Outcome(which, answer) ==
    IF answer.failed THEN answer.error
    ELSE IF validate(which, answer.output).raised THEN "invalid"
    ELSE "valid"

NoError == [kind |-> "", stage |-> "", attempts |-> 0, last_error |-> ""]

\* Mutant of StageError: the failure names the stage and the attempts only.
StageErrorBare(which, k, max_retries, last_error) ==
    [kind |-> IF which = "pipeline" THEN "PipelineError" ELSE "TextGenerationError",
     stage |-> StageName(which, k),
     attempts |-> max_retries + 1,
     last_error |-> ""]

\* TextGenerationError / PipelineError: "<stage> failed after <n> attempts"
StageError(which, k, max_retries, last_error) ==
    [kind |-> IF which = "pipeline" THEN "PipelineError" ELSE "TextGenerationError",
     stage |-> StageName(which, k),
     attempts |-> max_retries + 1,
     last_error |-> last_error]

TextIdle ==
    /\ t_impl = "service"
    /\ t_max_retries = 0
    /\ t_stage = 1
    /\ t_attempt = 0
    /\ t_pc = "idle"
    /\ t_fails = <<0, 0, 0>>
    /\ t_outputs = <<>>
    /\ t_error = NoError
    /\ t_calls = <<>>

TextInit ==
    /\ t_impl \in {"service", "pipeline", "product_cluster"}
    /\ t_max_retries \in 0..MaxRetries
    /\ t_stage = 1
    /\ t_attempt = 0
    /\ t_pc = "attempt"
    /\ t_fails = <<0, 0, 0>>
    /\ t_outputs = <<>>
    /\ t_error = NoError
    /\ t_calls = <<>>

\* _run_stage / _run_stage_with_retry, one iteration of the retry loop: the
\* backend call, the validation of its output.  A failure of the call itself
\* is not caught; a valid output is returned and the next stage starts (or the
\* pipeline returns); an invalid one is counted and, when it was the last
\* attempt, the loop ends and the stage raises.
T_Attempt ==
    /\ t_pc = "attempt"
    /\ t_attempt < Attempts(t_max_retries)
    /\ \E answer \in BackendAnswers(t_impl) :
         /\ t_calls' = Append(t_calls,
                [stage |-> t_stage,
                 prev_tsv |-> PrevTsv(t_impl, t_stage, t_outputs),
                 outcome |-> Outcome(t_impl, answer),
                 error |-> LastError(t_impl, answer)])
         /\ IF answer.failed /\ ~Caught(t_impl, answer)
            THEN /\ t_pc' = "failed"
                 /\ t_error' = [kind |-> answer.error, stage |-> "", attempts |-> 0,
                                last_error |-> ""]
                 /\ UNCHANGED <<t_stage, t_attempt, t_fails, t_outputs>>
            ELSE IF Caught(t_impl, answer)
            THEN /\ t_fails' = [t_fails EXCEPT ![t_stage] = @ + 1]
                 /\ t_attempt' = t_attempt + 1
                 /\ IF t_attempt + 1 = Attempts(t_max_retries)
                    THEN /\ t_pc' = "raised"
                         /\ t_error' = StageError(t_impl, t_stage, t_max_retries,
                                                  LastError(t_impl, answer))
                    ELSE UNCHANGED <<t_pc, t_error>>
                 /\ UNCHANGED <<t_stage, t_outputs>>
            ELSE /\ t_outputs' = Append(t_outputs, answer.output)
                 /\ IF t_stage < Len(STAGES)
                    THEN t_stage' = t_stage + 1 /\ t_attempt' = 0 /\ UNCHANGED t_pc
                    ELSE t_pc' = "returned" /\ UNCHANGED <<t_stage, t_attempt>>
                 /\ UNCHANGED <<t_fails, t_error>>
    /\ UNCHANGED <<t_impl, t_max_retries>>
    /\ UNCHANGED <<impl, orch_vars, svc_vars, eng_vars, par_vars, pool_vars, req_vars,
                   poll_vars, gen_vars, gem_vars, hand_vars>>


\* ---------------------------------------------------------- pool resolution
\* Longest style or cta pool, number of distinct pool values, largest count.
MaxPool == 4
PoolValues == 4
MaxPoolCount == 13
\* Resolutions of the same source made in a row.
MaxResolves == 2

\* STYLES
STYLES ==
    << [background_color |-> "#3B027A", text_color |-> "#FFFFFF", font |-> "exo-extrabold"],
       [background_color |-> "#E20072", text_color |-> "#FFFFFF", font |-> "exo-extrabold"],
       [background_color |-> "#FF5370", text_color |-> "#FFFFFF", font |-> "exo-extrabold"],
       [background_color |-> "#384152", text_color |-> "#FFFFFF", font |-> "exo-extrabold"],
       [background_color |-> "#FF8A00", text_color |-> "#000000", font |-> "exo-extrabold"],
       [background_color |-> "#13A4FB", text_color |-> "#000000", font |-> "exo-extrabold"],
       [background_color |-> "#13A4FB", text_color |-> "#FFFFFF", font |-> "exo-extrabold"],
       [background_color |-> "#FFD64F", text_color |-> "#000000", font |-> "exo-extrabold"],
       [background_color |-> "#244168", text_color |-> "#FFFFFF", font |-> "exo-extrabold"],
       [background_color |-> "#E2A9F1", text_color |-> "#FFFFFF", font |-> "exo-extrabold"],
       [background_color |-> "#004AAD", text_color |-> "#FFFFFF", font |-> "exo-extrabold"],
       [background_color |-> "#F49999", text_color |-> "#FFFFFF", font |-> "exo-extrabold"] >>

\* STYLES[index % len(STYLES)]
get_style(index) == STYLES[(index % Len(STYLES)) + 1]

\* [get_style(i) for i in range(count)]
get_styles_for_count(count) == [i \in 1..count |-> get_style(i - 1)]

\* A config with a style pool and a cta pool of the same length, entry k of
\* each holding the k-th of the values chosen.
PoolConfig(f) ==
    [name |-> "pools",
     style_pool |-> [k \in DOMAIN f |-> [background_color |-> Color(f[k]),
                                         text_color |-> Color(f[k] + PoolValues)]],
     cta_pool |-> [k \in DOMAIN f |-> [button_image |-> Cta(f[k])]]]

PoolConfigs ==
    UNION { {PoolConfig(f) : f \in [1..L -> 1..PoolValues]} : L \in 0..MaxPool }

PoolSources ==
    { [ns |-> "style", field |-> "background_color"],
      [ns |-> "style", field |-> "text_color"],
      [ns |-> "cta", field |-> "button_image"],
      [ns |-> "STYLES", field |-> "*"] }

PoolIdle ==
    /\ pl_config = PoolConfig(<<>>)
    /\ pl_source = [ns |-> "style", field |-> "background_color"]
    /\ pl_count = 1
    /\ pl_runs = <<>>

PoolInit ==
    /\ pl_config \in PoolConfigs
    /\ pl_source \in PoolSources
    /\ pl_count \in 1..MaxPoolCount
    /\ pl_runs = <<>>

\* One resolution of the source: _resolve_style_source, _resolve_cta_source or
\* get_styles_for_count; the config is only read.
Pl_Resolve ==
    /\ Len(pl_runs) < MaxResolves
    /\ LET out == CASE pl_source.ns = "style" ->
                         _resolve_style_source(pl_source, pl_config, pl_count)
                    [] pl_source.ns = "cta" ->
                         _resolve_cta_source(pl_source, pl_config, pl_count)
                    [] OTHER -> Returned(get_styles_for_count(pl_count))
       IN  pl_runs' = Append(pl_runs, out)
    /\ UNCHANGED <<pl_config, pl_source, pl_count>>
    /\ UNCHANGED <<impl, orch_vars, svc_vars, eng_vars, par_vars, text_vars, req_vars,
                   poll_vars, gen_vars, gem_vars, hand_vars>>


\* ------------------------------------------- the render client's submit call
\* Jobs a caller submits one after the other.
MaxClientJobs == 2

\* _request_with_retry's max_retries (its default; no caller passes another).
max_retries == 5

RECURSIVE Pow2(_)
Pow2(n) == IF n = 0 THEN 1 ELSE 2 * Pow2(n - 1)

\* Mutant of wait_time: the wait grows by one second an attempt.
wait_time_linear(attempt) == attempt + 1

\* wait_time = 2 ** attempt
wait_time(attempt) == Pow2(attempt)

\* What one requests.post does: a response with a status code (a 200 answer
\* holds the job's id or no id), or a RequestException (timeout, connection).
HttpAnswers ==
    { [status |-> 429, id |-> FALSE, exception |-> FALSE],
      [status |-> 200, id |-> TRUE, exception |-> FALSE],
      [status |-> 200, id |-> FALSE, exception |-> FALSE],
      [status |-> 500, id |-> FALSE, exception |-> FALSE],
      [status |-> 0, id |-> FALSE, exception |-> TRUE] }

\* submit_job / submit_generic_job after _request_with_retry returned the
\* response: raise_for_status(), then data.get("id"); a RequestException
\* makes it return None.  The id of job j is j.
SubmitReturn(job, response) ==
    IF response.exception \/ response.status # 200 THEN 0
    ELSE IF response.id THEN job ELSE 0

\* No product image generation runs.
GenIdle ==
    /\ g_inputs = <<>>
    /\ g_count = 1
    /\ g_pc = "idle"
    /\ g_i = 0
    /\ g_unique = <<>>
    /\ g_log = <<>>
    /\ g_out = <<>>

\* No image backend call runs.
GemIdle ==
    /\ m_attempt = 0
    /\ m_pc = "idle"
    /\ m_log = <<>>
    /\ m_waits = <<>>
    /\ m_out = ""

\* No handler run.
HandIdle ==
    /\ h_variations = <<>>
    /\ h_i = 0
    /\ h_image_ids = <<>>
    /\ h_pc = "idle"
    /\ h_error = ""

\* No poll loop runs.
PollIdle ==
    /\ q_job = 1
    /\ q_poll = 0
    /\ q_attempt = 0
    /\ q_pc = "idle"
    /\ q_error = <<>>
    /\ q_log = <<>>

\* No submit loop runs.
SubmitIdle ==
    /\ r_client = "creative"
    /\ r_job = 1
    /\ r_attempt = 0
    /\ r_pc = "idle"
    /\ r_log = <<>>
    /\ r_waits = <<>>
    /\ r_returns = <<>>

ReqIdle == SubmitIdle /\ PollIdle /\ GenIdle /\ GemIdle /\ HandIdle

ReqInit ==
    /\ r_client \in {"creative", "placid"}
    /\ r_job = 1
    /\ r_attempt = 0
    /\ r_pc = "request"
    /\ r_log = <<>>
    /\ r_waits = << <<>> >>
    /\ r_returns = <<>>
    /\ PollIdle
    /\ GenIdle
    /\ GemIdle
    /\ HandIdle

\* The caller's loop after submit returned `result` for the job: the next job's
\* submit starts (attempt 0), or the loop is over.
NextSubmit(result) ==
    /\ r_returns' = Append(r_returns, result)
    /\ IF r_job < MaxClientJobs
       THEN /\ r_job' = r_job + 1
            /\ r_attempt' = 0
            /\ r_waits' = Append(r_waits, <<>>)
            /\ UNCHANGED r_pc
       ELSE /\ r_pc' = "done"
            /\ UNCHANGED <<r_job, r_attempt, r_waits>>

\* _request_with_retry, one iteration of "for attempt in range(max_retries)":
\* the request; a 429 answer sleeps wait_time and continues, and the loop's
\* end returns that last response to submit; any other response is returned
\* at once; an exception leaves the loop and submit returns None.
R_Attempt ==
    /\ r_pc = "request"
    /\ r_attempt < max_retries
    /\ \E response \in HttpAnswers :
         /\ r_log' = Append(r_log, [job |-> r_job, attempt |-> r_attempt,
                                    status |-> response.status])
         /\ IF ~response.exception /\ response.status = 429
            THEN LET slept == [r_waits EXCEPT ![r_job] = Append(@, wait_time(r_attempt))] IN
                 IF r_attempt + 1 < max_retries
                 THEN /\ r_waits' = slept
                      /\ r_attempt' = r_attempt + 1
                      /\ UNCHANGED <<r_job, r_pc, r_returns>>
                 ELSE /\ r_returns' = Append(r_returns, SubmitReturn(r_job, response))
                      /\ IF r_job < MaxClientJobs
                         THEN /\ r_job' = r_job + 1
                              /\ r_attempt' = 0
                              /\ r_waits' = Append(slept, <<>>)
                              /\ UNCHANGED r_pc
                         ELSE /\ r_pc' = "done"
                              /\ r_waits' = slept
                              /\ UNCHANGED <<r_job, r_attempt>>
            ELSE NextSubmit(SubmitReturn(r_job, response))
    /\ UNCHANGED r_client
    /\ UNCHANGED <<impl, orch_vars, svc_vars, eng_vars, par_vars, text_vars, pool_vars,
                   poll_vars, gen_vars, gem_vars, hand_vars>>


\* ------------------------------------------- the render client's poll call
\* What one requests.get of /images/<image_id> does: a response with a status
\* code (a 200 answer carries the job's JSON: status, image_url, errors; 0 is
\* an absent value), or a RequestException (timeout, connection).
NoData == [status |-> "", image_url |-> 0, errors |-> ""]

GetAnswers(image_id) ==
    { [status_code |-> 200, exception |-> FALSE, data |-> d] :
        d \in { [status |-> "finished", image_url |-> UrlOf(image_id), errors |-> ""],
                [status |-> "finished", image_url |-> 0, errors |-> ""],
                [status |-> "error", image_url |-> 0, errors |-> "render failed"],
                [status |-> "error", image_url |-> 0, errors |-> ""],
                [status |-> "queued", image_url |-> 0, errors |-> ""] } }
    \cup { [status_code |-> c, exception |-> FALSE, data |-> NoData] : c \in {429, 404, 500} }
    \cup { [status_code |-> 0, exception |-> TRUE, data |-> NoData] }

\* str(e) of the RequestException poll_job caught: the HTTPError that
\* raise_for_status() raised for a 4xx or 5xx response, or the transport error.
ExceptionText(response) ==
    IF response.exception THEN "connection failed"
    ELSE IF response.status_code < 500 THEN "Client Error" ELSE "Server Error"

\* Mutant of poll_job: no raise_for_status(), the body is read whatever the
\* status code (a body with no status reads as "unknown").
poll_job_unchecked(response) ==
    IF response.exception
    THEN [status |-> "error", url |-> 0, error |-> ExceptionText(response)]
    ELSE [status |-> IF response.data.status = "" THEN "unknown" ELSE response.data.status,
          url |-> response.data.image_url, error |-> response.data.errors]

\* poll_job after _request_with_retry returned the response or raised:
\* raise_for_status(), then (status, image_url, error_msg) of the JSON; a
\* RequestException makes it return ("error", None, str(e)).
poll_job(response) ==
    IF response.exception \/ response.status_code >= 400
    THEN [status |-> "error", url |-> 0, error |-> ExceptionText(response)]
    ELSE [status |-> IF response.data.status = "" THEN "unknown" ELSE response.data.status,
          url |-> response.data.image_url, error |-> response.data.errors]

PollInit ==
    /\ q_job = 1
    /\ q_poll = 0
    /\ q_attempt = 0
    /\ q_pc = "request"
    /\ q_error = <<>>
    /\ q_log = <<>>

\* Mutant of PollReturned: status finished ends the job's polling, URL or not.
PollReturnedAnyFinished(answer, response) ==
    /\ q_log' = Append(q_log, [job |-> q_job, poll |-> q_poll,
                               status_code |-> response.status_code,
                               status |-> answer.status, url |-> answer.url,
                               error |-> answer.error])
    /\ IF answer.status = "finished"
       THEN IF q_job < MaxClientJobs
            THEN /\ q_job' = q_job + 1
                 /\ q_poll' = 0
                 /\ q_attempt' = 0
                 /\ UNCHANGED <<q_pc, q_error>>
            ELSE /\ q_pc' = "returned"
                 /\ UNCHANGED <<q_job, q_poll, q_attempt, q_error>>
       ELSE IF answer.status = "error"
       THEN /\ q_pc' = "raised"
            /\ q_error' = <<"Placid job failed", answer.error>>
            /\ UNCHANGED <<q_job, q_poll, q_attempt>>
       ELSE IF q_poll + 1 < max_attempts
       THEN /\ q_poll' = q_poll + 1
            /\ q_attempt' = 0
            /\ UNCHANGED <<q_job, q_pc, q_error>>
       ELSE /\ q_pc' = "raised"
            /\ q_error' = <<"Placid job timed out">>
            /\ UNCHANGED <<q_job, q_poll, q_attempt>>

\* _poll_job and the poll loop of _build_creatives after poll_job returned
\* `answer`: finished with a URL ends the job's polling and the loop goes to
\* the next job; error raises "Placid job failed"; anything else sleeps, and
\* after max_attempts polls of the job raises "Placid job timed out".
PollReturned(answer, response) ==
    /\ q_log' = Append(q_log, [job |-> q_job, poll |-> q_poll,
                               status_code |-> response.status_code,
                               status |-> answer.status, url |-> answer.url,
                               error |-> answer.error])
    /\ IF answer.status = "finished" /\ answer.url # 0
       THEN IF q_job < MaxClientJobs
            THEN /\ q_job' = q_job + 1
                 /\ q_poll' = 0
                 /\ q_attempt' = 0
                 /\ UNCHANGED <<q_pc, q_error>>
            ELSE /\ q_pc' = "returned"
                 /\ UNCHANGED <<q_job, q_poll, q_attempt, q_error>>
       ELSE IF answer.status = "error"
       THEN /\ q_pc' = "raised"
            /\ q_error' = <<"Placid job failed", answer.error>>
            /\ UNCHANGED <<q_job, q_poll, q_attempt>>
       ELSE IF q_poll + 1 < max_attempts
       THEN /\ q_poll' = q_poll + 1
            /\ q_attempt' = 0
            /\ UNCHANGED <<q_job, q_pc, q_error>>
       ELSE /\ q_pc' = "raised"
            /\ q_error' = <<"Placid job timed out">>
            /\ UNCHANGED <<q_job, q_poll, q_attempt>>

\* One requests.get of the poll_job call that _poll_job is in, i.e. one
\* iteration of _request_with_retry's loop: a 429 answer sleeps wait_time and
\* continues, and the loop's end returns that last response to poll_job; any
\* other response is returned at once and an exception leaves the loop.
Q_Request ==
    /\ q_pc = "request"
    /\ q_attempt < max_retries
    /\ \E response \in GetAnswers(q_job) :
         IF ~response.exception /\ response.status_code = 429 /\ q_attempt + 1 < max_retries
         THEN /\ q_attempt' = q_attempt + 1
              /\ UNCHANGED <<q_job, q_poll, q_pc, q_error, q_log>>
         ELSE PollReturned(poll_job(response), response)
    /\ UNCHANGED <<impl, orch_vars, svc_vars, eng_vars, par_vars, text_vars, pool_vars,
                   req_vars, gen_vars, gem_vars, hand_vars>>

\* ------------------------------------- the product image generator, stepwise
\* Largest number of product image URLs in the inputs.
MaxUrls == 3

UrlLists == UNION { [1..n -> {"u1", "u2"}] : n \in 0..MaxUrls }

\* The inputs of a product image generation: the URL list (absent, empty or up
\* to MaxUrls entries, repeats allowed) and input_index (absent, 0 or 1).
GenInputs ==
    { u @@ x : u \in {<<>>} \cup { [product_image_urls |-> l] : l \in UrlLists },
               x \in {<<>>, [input_index |-> 0], [input_index |-> 1]} }

GenInit ==
    /\ g_inputs \in GenInputs
    /\ g_count \in 1..MaxCount
    /\ g_pc = "enter"
    /\ g_i = 0
    /\ g_unique = <<>>
    /\ g_log = <<>>
    /\ g_out = <<>>

\* _generate_raw got as far as processing the image of input_index.
Processes(inputs) ==
    /\ "input_index" \in DOMAIN inputs
    /\ inputs.input_index < Len(Get(inputs, "product_image_urls", <<>>))

LogEntry(inputs) ==
    <<inputs.input_index, inputs.product_image_urls[inputs.input_index + 1]>>

\* Mutant of CycleResults: past the last result, the last result is repeated.
CycleResultsClamped(unique_results, count) ==
    [i \in 1..count |->
        unique_results[IF i <= Len(unique_results) THEN i ELSE Len(unique_results)]]

\* [unique_results[i % len(unique_results)] for i in range(context.count)]
CycleResults(unique_results, count) ==
    [i \in 1..count |-> unique_results[((i - 1) % Len(unique_results)) + 1]]

\* generate, up to the loop: with input_index in the inputs the single-image
\* path runs and generate returns what it returns; without it and without
\* URLs generate raises; else the cycling loop starts.
G_Enter ==
    /\ g_pc = "enter"
    /\ IF "input_index" \in DOMAIN g_inputs
       THEN \E up \in BOOLEAN :
            LET out == ProductImage_single(g_inputs, up) IN
            /\ g_log' = IF Processes(g_inputs) THEN Append(g_log, LogEntry(g_inputs)) ELSE g_log
            /\ g_pc' = IF out.raised THEN "raised" ELSE "returned"
            /\ g_out' = out.values
       ELSE IF Get(g_inputs, "product_image_urls", <<>>) = <<>>
       THEN g_pc' = "raised" /\ UNCHANGED <<g_log, g_out>>
       ELSE g_pc' = "loop" /\ UNCHANGED <<g_log, g_out>>
    /\ UNCHANGED <<g_inputs, g_count, g_i, g_unique>>
    /\ UNCHANGED <<impl, orch_vars, svc_vars, eng_vars, par_vars, text_vars, pool_vars,
                   req_vars, poll_vars, gem_vars, hand_vars>>

\* One iteration of the cycling loop: super().generate on the inputs with
\* input_index i and count 1; its value joins unique_results, its failure
\* ends generate.
G_Process ==
    /\ g_pc = "loop"
    /\ g_i < Len(g_inputs.product_image_urls)
    /\ \E up \in BOOLEAN :
         LET single_inputs == [input_index |-> g_i] @@ g_inputs
             urls == ProductImage_single(single_inputs, up)
         IN  /\ g_log' = Append(g_log, LogEntry(single_inputs))
             /\ IF urls.raised
                THEN g_pc' = "raised" /\ UNCHANGED <<g_i, g_unique>>
                ELSE /\ g_unique' = Append(g_unique, urls.values[1])
                     /\ g_i' = g_i + 1
                     /\ UNCHANGED g_pc
    /\ UNCHANGED <<g_inputs, g_count, g_out>>
    /\ UNCHANGED <<impl, orch_vars, svc_vars, eng_vars, par_vars, text_vars, pool_vars,
                   req_vars, poll_vars, gem_vars, hand_vars>>

\* The loop is over: the results are cycled to count values and returned.
G_Return ==
    /\ g_pc = "loop"
    /\ g_i = Len(g_inputs.product_image_urls)
    /\ g_out' = CycleResults(g_unique, g_count)
    /\ g_pc' = "returned"
    /\ UNCHANGED <<g_inputs, g_count, g_i, g_unique, g_log>>
    /\ UNCHANGED <<impl, orch_vars, svc_vars, eng_vars, par_vars, text_vars, pool_vars,
                   req_vars, poll_vars, gem_vars, hand_vars>>

\* ---------------------------------------- the image backend's retry wrapper
\* _call_with_retry's max_retries (its default; no caller passes another).
gemini_max_retries == 5

\* retry_codes (the default; no caller passes another).
retry_codes == {503, 429}

\* str(e) of the errors func() raises: two status errors that are retried, a
\* text that merely holds the digits 429, and two errors that are not retried.
ErrorTexts ==
    {"503 UNAVAILABLE", "429 RESOURCE_EXHAUSTED", "took 4290 ms", "400 INVALID_ARGUMENT",
     "deadline exceeded"}

\* str(code) in error_str
InText(code, error_str) ==
    \/ code = 503 /\ error_str = "503 UNAVAILABLE"
    \/ code = 429 /\ error_str \in {"429 RESOURCE_EXHAUSTED", "took 4290 ms"}

\* Mutant of is_retryable: every error is retried.
is_retryable_always(error_str) == TRUE

\* is_retryable = any(str(code) in error_str for code in retry_codes)
is_retryable(error_str) == \E code \in retry_codes : InText(code, error_str)

\* What one func() call does: it returns the response or raises.
FuncOutcomes ==
    { [ok |-> TRUE, text |-> "response"] } \cup { [ok |-> FALSE, text |-> e] : e \in ErrorTexts }

GemInit ==
    /\ m_attempt = 0
    /\ m_pc = "call"
    /\ m_log = <<>>
    /\ m_waits = <<>>
    /\ m_out = ""

\* _call_with_retry, one iteration of "for attempt in range(max_retries)":
\* func() returns and its value is returned; or it raises, and the error is
\* re-raised if it is not retryable or this is the last attempt, else the loop
\* sleeps 2 ** attempt and goes on.
M_Call ==
    /\ m_pc = "call"
    /\ m_attempt < gemini_max_retries
    /\ \E outcome \in FuncOutcomes :
         /\ m_log' = Append(m_log, outcome)
         /\ IF outcome.ok
            THEN m_pc' = "returned" /\ m_out' = outcome.text /\ UNCHANGED <<m_attempt, m_waits>>
            ELSE IF ~is_retryable(outcome.text) \/ m_attempt = gemini_max_retries - 1
            THEN m_pc' = "raised" /\ m_out' = outcome.text /\ UNCHANGED <<m_attempt, m_waits>>
            ELSE /\ m_waits' = Append(m_waits, Pow2(m_attempt))
                 /\ m_attempt' = m_attempt + 1
                 /\ UNCHANGED <<m_pc, m_out>>
    /\ UNCHANGED <<impl, orch_vars, svc_vars, eng_vars, par_vars, text_vars, pool_vars,
                   req_vars, poll_vars, gen_vars, hand_vars>>

\* ------------------------------------------------ the handler's image submit
\* TSVParser.EXPECTED_ROWS: the rows the text pipeline returns have the
\* indices 1..12, sorted.
EXPECTED_ROWS == 12

ColorScheme(background_color, text_color) ==
    [background_color |-> background_color, text_color |-> text_color]

\* COLOR_BATCHES: three batches of three colour schemes.
COLOR_BATCHES ==
    (1 :> << ColorScheme("#3B027A", "#FFFFFF"), ColorScheme("#E20072", "#FFFFFF"),
             ColorScheme("#FF5370", "#FFFFFF") >>)
    @@ (2 :> << ColorScheme("#384152", "#FFFFFF"), ColorScheme("#FF8A00", "#000000"),
                ColorScheme("#13A4FB", "#000000") >>)
    @@ (3 :> << ColorScheme("#13A4FB", "#FFFFFF"), ColorScheme("#FFD64F", "#000000"),
                ColorScheme("#244168", "#FFFFFF") >>)

\* TextVariation.from_index
from_index(index, text) ==
    [index |-> index, text |-> text,
     batch_num |-> ((index - 1) \div 3) + 1,
     color_index |-> (index - 1) % 3]

\* get_variant_by_index: a ValueError for a batch_num that COLOR_BATCHES does
\* not have or a color_index outside the batch, else the ImageVariant.
get_variant_by_index(batch_num, color_index) ==
    IF batch_num \notin DOMAIN COLOR_BATCHES
    THEN [raised |-> TRUE, error |-> "Invalid batch_num", variant |-> <<>>]
    ELSE LET colors == COLOR_BATCHES[batch_num] IN
         IF ~(0 <= color_index /\ color_index < Len(colors))
         THEN [raised |-> TRUE, error |-> "Invalid color_index", variant |-> <<>>]
         ELSE [raised |-> FALSE, error |-> "",
               variant |-> [color_scheme |-> colors[color_index + 1], font |-> "exo-extrabold"]]

\* The texts the pipeline's final rows carry.
RowTexts == {"Foo", "Bar"}

\* The image ids PlacidClient.submit_job can return for a variation: None (0)
\* when the request failed, else an id of the service's choosing.
SubmitIds(index) == {0, index, 100 + index}

\* TextGenerationPipeline.run returned: one TextVariation per final row.
HandInit ==
    /\ \E t \in RowTexts :
         h_variations = [k \in 1..EXPECTED_ROWS |-> from_index(k, t)]
    /\ h_i = 0
    /\ h_image_ids = <<>>
    /\ h_pc = "submit"
    /\ h_error = ""

\* submit_all_images, one iteration of its loop: the variant of the variation,
\* the submission, the failure on a missing id; after the last variation the
\* map is returned.
H_Submit ==
    /\ h_pc = "submit"
    /\ h_i < Len(h_variations)
    /\ LET variation == h_variations[h_i + 1]
           variant == get_variant_by_index(variation.batch_num, variation.color_index)
       IN  IF variant.raised
           THEN /\ h_pc' = "raised"
                /\ h_error' = variant.error
                /\ UNCHANGED <<h_i, h_image_ids>>
           ELSE \E image_id \in SubmitIds(variation.index) :
                IF image_id = 0
                THEN /\ h_pc' = "raised"
                     /\ h_error' = "Failed to submit image"
                     /\ UNCHANGED <<h_i, h_image_ids>>
                ELSE /\ h_image_ids' = (variation.index :> image_id) @@ h_image_ids
                     /\ h_i' = h_i + 1
                     /\ h_pc' = IF h_i + 1 = Len(h_variations) THEN "returned" ELSE "submit"
                     /\ UNCHANGED h_error
    /\ UNCHANGED h_variations
    /\ UNCHANGED <<impl, orch_vars, svc_vars, eng_vars, par_vars, text_vars, pool_vars,
                   req_vars, poll_vars, gen_vars, gem_vars>>

\* --------------------------------------------------------- the specification
\* One behaviour runs one implementation of the render-job flow: Orchestrator.run
\* over a JobTracker, CreativeService.generate_batch, or CreativeEngine.generate.
Init ==
    /\ impl \in {"orchestrator", "service", "engine", "engine_v2"}
    /\ OrchInit
    /\ \E n \in 0..MaxJobs : SvcInit(IF impl = "service" THEN n ELSE 0)
    /\ \E config \in Configs : \E inputs \in InputsChoices : \E count \in 1..MaxCount :
         IF impl \in Engines THEN EngInit(config, inputs, count)
         ELSE EngInit(SINGLE_VARIANT_CONFIG, <<>>, 1)
    /\ ParIdle
    /\ TextIdle
    /\ PoolIdle
    /\ ReqIdle

Next ==
    \/ O_AddJob
    \/ O_BeginSubmit
    \/ O_Submit
    \/ O_EndSubmit
    \/ O_PollRound
    \/ O_Poll
    \/ O_Sleep
    \/ S_Submit
    \/ S_EndSubmit
    \/ S_While
    \/ S_Poll
    \/ S_EndRound
    \/ E_Resolve
    \/ E_EndResolve
    \/ V2_Resolve
    \/ V2_EndResolve
    \/ E_Submit
    \/ E_EndSubmit
    \/ E_Poll
    \/ E_Timeout
    \/ E_Return

vars == <<impl, orch_vars, svc_vars, eng_vars, rest_vars>>

Spec == Init /\ [][Next]_vars

\* The other components run on their own; no render-job flow runs beside them.
RenderIdle ==
    /\ impl = "none"
    /\ OrchInit
    /\ SvcInit(0)
    /\ EngInit(SINGLE_VARIANT_CONFIG, <<>>, 1)

\* Largest number of jobs of a run whose termination is checked.
MaxLiveJobs == 2

\* One generate call of an engine, which keeps running until it returns or
\* raises: every step of it that can be taken is taken.
InitEngine == Init /\ impl \in Engines /\ e_count <= MaxLiveJobs
NextEngine ==
    \/ E_Resolve
    \/ E_EndResolve
    \/ V2_Resolve
    \/ V2_EndResolve
    \/ E_Submit
    \/ E_EndSubmit
    \/ E_Poll
    \/ E_Timeout
    \/ E_Return
SpecEngineFair == InitEngine /\ [][NextEngine]_vars /\ WF_vars(NextEngine)

\* One run of a batch flow (Orchestrator.run or CreativeService.generate_batch)
\* that keeps running, against a render service that does not answer a
\* non-terminal status for ever: a poll that can be answered finished or error
\* again and again is so answered at some point.
O_PollAnswered == O_Poll /\ tracker' # tracker
S_PollAnswered == S_Poll /\ (s_pending' # s_pending \/ s_pc' = "raised")
O_AddJobFew == Len(tracker.all_jobs) < MaxLiveJobs /\ O_AddJob
InitBatch == Init /\ impl \in {"orchestrator", "service"} /\ s_n <= MaxLiveJobs
NextBatch ==
    \/ O_AddJobFew
    \/ O_BeginSubmit
    \/ O_Submit
    \/ O_EndSubmit
    \/ O_PollRound
    \/ O_Poll
    \/ O_Sleep
    \/ S_Submit
    \/ S_EndSubmit
    \/ S_While
    \/ S_Poll
    \/ S_EndRound
SpecBatchFair ==
    /\ InitBatch
    /\ [][NextBatch]_vars
    /\ WF_vars(NextBatch)
    /\ SF_vars(O_PollAnswered)
    /\ SF_vars(S_PollAnswered)

\* The submit calls a caller makes of one render client.
InitClient == RenderIdle /\ ParIdle /\ TextIdle /\ PoolIdle /\ ReqInit
NextClient == R_Attempt
SpecClient == InitClient /\ [][NextClient]_vars

\* The engine's poll loop over the jobs of one batch, down to the HTTP requests
\* of the render client.
InitPoll ==
    RenderIdle /\ ParIdle /\ TextIdle /\ PoolIdle /\ SubmitIdle /\ PollInit /\ GenIdle /\ GemIdle
    /\ HandIdle
NextPoll == Q_Request
SpecPoll == InitPoll /\ [][NextPoll]_vars

\* One call of ProductImageGenerator.generate.
InitProduct ==
    RenderIdle /\ ParIdle /\ TextIdle /\ PoolIdle /\ SubmitIdle /\ PollIdle /\ GenInit /\ GemIdle
    /\ HandIdle
NextProduct == G_Enter \/ G_Process \/ G_Return
SpecProduct == InitProduct /\ [][NextProduct]_vars

\* One call of GeminiClient._call_with_retry.
InitGemini ==
    RenderIdle /\ ParIdle /\ TextIdle /\ PoolIdle /\ SubmitIdle /\ PollIdle /\ GenIdle /\ GemInit
    /\ HandIdle
NextGemini == M_Call
SpecGemini == InitGemini /\ [][NextGemini]_vars

\* The handler after the text pipeline returned: submit_all_images.
InitHandler ==
    RenderIdle /\ ParIdle /\ TextIdle /\ PoolIdle /\ SubmitIdle /\ PollIdle /\ GenIdle /\ GemIdle
    /\ HandInit
NextHandler == H_Submit
SpecHandler == InitHandler /\ [][NextHandler]_vars

\* A parser reading one raw text.
InitParser == RenderIdle /\ ParInit /\ TextIdle /\ PoolIdle /\ ReqIdle
NextParser ==
    \/ P_AddLine
    \/ P_Parse
SpecParser == InitParser /\ [][NextParser]_vars

\* The three text stages of one pipeline run.
InitText == RenderIdle /\ ParIdle /\ TextInit /\ PoolIdle /\ ReqIdle
NextText == T_Attempt
SpecText == InitText /\ [][NextText]_vars

\* Resolutions of one style, cta or STYLES source.
InitPool == RenderIdle /\ ParIdle /\ TextIdle /\ PoolInit /\ ReqIdle
NextPool == Pl_Resolve
SpecPool == InitPool /\ [][NextPool]_vars


\* ===================================================================== claims
JobCount == Len(tracker.all_jobs)
StatusOf(j) == tracker.all_jobs[j].status

\* The variant label of creative position i (0-based): the sequence's entry
\* when a sequence is configured, else the first variant.
VariantOfPosition(config, i) ==
    IF config.variant_sequence # <<>> THEN config.variant_sequence[i + 1]
    ELSE config.variants[1]

FinishedPollOf(job_id, url) ==
    \E k \in 1..Len(e_poll_log) :
        /\ e_poll_log[k].job_id = job_id
        /\ e_poll_log[k].status = "finished"
        /\ e_poll_log[k].url = url

\* C1: a successful generate(count = N) returns exactly N Creatives, the jobs
\* were submitted in creative order 0..N-1, and the i-th Creative holds the
\* property map built for creative i, the variant of position i and the URL
\* that the poll of the i-th submitted job returned.  The same mirror holds of
\* CreativeService.generate_batch (texts zipped with the URLs of their jobs).
C1_ResultMirrorsSubmission ==
    /\ (impl = "engine" /\ e_pc = "returned") =>
         /\ Len(e_return) = e_count
         /\ Len(e_submit_log) = e_count
         /\ \A k \in 1..e_count :
              /\ e_submit_log[k].creative = k - 1
              /\ e_return[k].layers = _build_layers(e_config, e_results, e_inputs, k - 1).layers
              /\ e_return[k].variant = VariantOfPosition(e_config, k - 1)
              /\ e_return[k].creative_url # 0
              /\ e_return[k].creative_url = UrlOf(e_submit_log[k].job_id)
              /\ FinishedPollOf(e_submit_log[k].job_id, e_return[k].creative_url)
    /\ (impl = "service" /\ s_pc = "returned") =>
         /\ Len(s_result) = s_n
         /\ Len(s_job_ids) = s_n
         /\ \A k \in 1..s_n :
              /\ s_result[k].text = k - 1
              /\ s_result[k].image_url \in {UrlOf(s_job_ids[k]), 0}

\* C1 witness: generate returned two or more Creatives whose job ids were not
\* handed out in increasing order.
C1_Witness ==
    /\ impl = "engine"
    /\ e_pc = "returned"
    /\ Len(e_return) >= 2
    /\ e_submit_log[1].job_id > e_submit_log[2].job_id

\* C2 (as claimed): whenever a poll of a job of the batch answered error, the
\* call raises and returns nothing, in every implementation of the poll phase.
C2_ErrorAbortsEveryBatch ==
    /\ (impl = "engine" /\ \E k \in 1..Len(e_poll_log) : e_poll_log[k].status = "error")
          => (e_pc = "raised" /\ e_return = <<>>)
    /\ (impl = "service" /\ s_poll_errors # {}) => (s_pc = "raised" /\ s_result = <<>>)
    /\ (impl = "orchestrator" /\ o_poll_errors # {}) => o_pc # "returned"

\* C2 (amended): in CreativeEngine.generate and CreativeService an error answer
\* raises at once: no Creative is returned, although jobs of the batch may have
\* finished, and no poll follows the error.  Orchestrator.poll_all does not
\* raise: it marks that job ERROR and goes on.
C2_ErrorAbortsEngineAndService ==
    /\ impl = "engine" =>
         /\ \A k \in 1..Len(e_poll_log) :
              e_poll_log[k].status = "error" =>
                 (k = Len(e_poll_log) /\ e_pc = "raised" /\ e_return = <<>>)
    /\ impl = "service" =>
         /\ s_poll_errors # {} =>
              (s_pc = "raised" /\ s_result = <<>> /\ Cardinality(s_poll_errors) = 1)
    /\ impl = "orchestrator" =>
         /\ o_pc # "raised"
         /\ \A j \in o_poll_errors : StatusOf(j) = ERROR

\* C2 witness: the engine raised on an error answer after an earlier job of
\* the same batch had finished.
C2_Witness ==
    /\ impl = "engine"
    /\ e_pc = "raised"
    /\ e_creatives # <<>>
    /\ e_poll_log # <<>>
    /\ e_poll_log[Len(e_poll_log)].status = "error"

\* The engine's submit loop stops early only when the variant or the layers of
\* the next creative cannot be built.
EngineSubmitComplete ==
    \/ e_pc \in {"resolve", "submit"}
    \/ Len(e_submit_log) = e_count
    \/ /\ e_pc = "raised"
       /\ \/ e_src <= Len(SourceOrder(e_config))
          \/ VariantFor(e_config, Len(e_submit_log)).raised
          \/ _build_layers(e_config, e_results, e_inputs, Len(e_submit_log)).raised

SubmitFailedMarks ==
    \A j \in 1..JobCount :
        (j \in o_sub_failed) <=>
            (StatusOf(j) = ERROR /\ tracker.all_jobs[j].error = "Submit failed")

\* C3 (as claimed): a failed submission of creative i never prevents the
\* submit call of a later creative: once the submit phase is over the submit
\* call was made for all N, in every implementation of the submit phase.
C3_SubmitIndependentEverywhere ==
    /\ (impl = "orchestrator" /\ o_pc \notin {"add", "submit"}) =>
          Len(o_submit_calls) = JobCount
    /\ impl = "orchestrator" => SubmitFailedMarks
    /\ impl = "engine" => EngineSubmitComplete
    /\ (impl = "service" /\ s_pc # "submit") => s_submit_calls = s_n

\* C3 (amended): Orchestrator.submit_all and the engine's submit loop make the
\* submit call for every creative whatever the earlier answers were, and the
\* tracker marks exactly the failed jobs as failed; CreativeService._submit_all
\* raises at the first failed submission and makes no further submit call.
C3_SubmitIndependentInOrchestrator ==
    /\ (impl = "orchestrator" /\ o_pc \notin {"add", "submit"}) =>
          /\ Len(o_submit_calls) = JobCount
          /\ \A k \in 1..JobCount : o_submit_calls[k] = k
    /\ impl = "orchestrator" => SubmitFailedMarks
    /\ impl = "engine" => EngineSubmitComplete
    /\ (impl = "service" /\ s_sub_failed # {}) =>
          /\ s_pc = "raised"
          /\ s_sub_failed = {s_submit_calls - 1}
          /\ s_result = <<>>
    /\ (impl = "service" /\ s_sub_failed = {} /\ s_pc # "submit") => s_submit_calls = s_n

\* C3 witness: the first job's submission failed and a later job of the same
\* Orchestrator run was submitted.
C3_Witness ==
    /\ impl = "orchestrator"
    /\ o_pc = "poll_all"
    /\ 1 \in o_sub_failed
    /\ \E j \in 2..JobCount : StatusOf(j) = SUBMITTED

AllowedMoves ==
    { <<PENDING, SUBMITTED>>, <<PENDING, ERROR>>, <<SUBMITTED, FINISHED>>,
      <<SUBMITTED, ERROR>> }

\* C4: a tracked job's status only moves PENDING -> SUBMITTED, PENDING -> ERROR,
\* SUBMITTED -> FINISHED or SUBMITTED -> ERROR; FINISHED and ERROR are never left.
C4_StatusMoves ==
    [][ \A j \in 1..JobCount :
          tracker'.all_jobs[j].status # StatusOf(j) =>
             <<StatusOf(j), tracker'.all_jobs[j].status>> \in AllowedMoves ]_vars

\* C4 witness: one run holds a FINISHED job, a job that failed while rendering
\* and a job whose submission failed.
C4_Witness ==
    /\ impl = "orchestrator"
    /\ \E a, b, c \in 1..JobCount :
         /\ StatusOf(a) = FINISHED
         /\ StatusOf(b) = ERROR /\ b \in o_poll_errors
         /\ StatusOf(c) = ERROR /\ c \in o_sub_failed

\* C5: a job has an external id exactly if it was SUBMITTED at some point; a
\* job whose submission failed has none; the id is set in the step that makes
\* the job SUBMITTED and never changes afterwards; the engine's job_ids entries
\* are never rewritten either.
C5_IdAssignedOnce ==
    /\ [](\A j \in 1..JobCount :
            /\ (tracker.all_jobs[j].image_id # 0) <=> (j \in o_ever_sub)
            /\ (j \in o_sub_failed) => tracker.all_jobs[j].image_id = 0)
    /\ [][ /\ \A j \in 1..JobCount :
                /\ tracker.all_jobs[j].image_id # 0 =>
                      tracker'.all_jobs[j].image_id = tracker.all_jobs[j].image_id
                /\ (tracker.all_jobs[j].image_id = 0 /\ tracker'.all_jobs[j].image_id # 0) =>
                      (StatusOf(j) = PENDING /\ tracker'.all_jobs[j].status = SUBMITTED)
           /\ \A k \in 1..Len(e_job_ids) : e_job_ids'[k] = e_job_ids[k] ]_vars

\* C5 witness: a job that got its id at submission has since finished, next to
\* a job whose submission failed.
C5_Witness ==
    /\ impl = "orchestrator"
    /\ \E a, b \in 1..JobCount :
         /\ StatusOf(a) = FINISHED /\ tracker.all_jobs[a].image_id # 0
         /\ b \in o_sub_failed


\* The index a line carries as a data row of its table, or -1 when the line
\* is no data row (blank, heading, recognised header row, prose, or a row
\* without its text fields).
DataRowIndex(raw_line, paired) ==
    LET line == Strip(raw_line) IN
    IF line = <<>> \/ StartsWithHash(line) THEN -1
    ELSE IF (IF paired THEN IsPairedHeaderRow(line) ELSE IsHeaderRow(line)) THEN -1
    ELSE IF ~line[1].digits THEN -1
    ELSE IF paired
         THEN (IF Len(line) >= 3 /\ line[2].txt # "" /\ line[3].txt # ""
               THEN line[1].num ELSE -1)
    ELSE (IF Len(line) >= 2 THEN line[1].num ELSE -1)

Carriers(k) ==
    {j \in 1..Len(p_content) : DataRowIndex(p_content[j], p_variant = "paired") = k}

EachIndexOnce == \A k \in 1..ExpectedRows : Cardinality(Carriers(k)) = 1

\* The row the parser should return for the line at position j.
RowOfCarrier(j) ==
    LET line == Strip(p_content[j]) IN
    IF p_variant = "paired" THEN TSVRowPaired(line[1].num, line[2].txt, line[3].txt)
    ELSE TSVRow(line[1].num, TextOf(Tail(line)))

\* C6: when the data rows of the text carry each index of 1..N exactly once,
\* the parser returns exactly N rows, ascending by index, each the row of the
\* line carrying that index; when an index of 1..N is missing or carried
\* twice, it raises a parse failure carrying the raw text and returns no rows.
C6_ParserRowsOrRaises ==
    p_pc = "parsed" =>
        IF EachIndexOnce
        THEN /\ ~p_out.raised
             /\ Len(p_out.rows) = ExpectedRows
             /\ \A k \in 1..ExpectedRows :
                  /\ p_out.rows[k].index = k
                  /\ \A j \in Carriers(k) : p_out.rows[k] = RowOfCarrier(j)
        ELSE /\ p_out.raised
             /\ p_out.raw_output = p_content
             /\ p_out.rows = <<>>

\* C6 witness: a text whose first line is the row of the last index, with a
\* line that is no data row among its lines, parsed to its rows.
C6_Witness ==
    /\ p_pc = "parsed"
    /\ ~p_out.raised
    /\ Len(p_content) > ExpectedRows
    /\ DataRowIndex(p_content[1], p_variant = "paired") = ExpectedRows

StageReturned(k) == Len(t_outputs) >= k

\* C7 (as claimed, for a budget of at least one retry): a stage whose output
\* failed validation K times and then validated returns only when K < B.
C7_ReturnsOnlyBelowBudget ==
    t_max_retries >= 1 =>
        \A k \in 1..Len(STAGES) : StageReturned(k) => t_fails[k] < t_max_retries

\* C7 (amended): a stage returns the validating output when K <= B, that is
\* also when every one of the B additional attempts was needed; it raises,
\* naming the stage and the B + 1 attempts, exactly when B + 1 outputs in a row
\* failed validation.
C7_ReturnsWithinBudget ==
    /\ \A k \in 1..Len(STAGES) :
         /\ t_fails[k] <= t_max_retries + 1
         /\ StageReturned(k) =>
              /\ t_fails[k] <= t_max_retries
              /\ ~validate(t_impl, t_outputs[k]).raised
         /\ t_fails[k] = t_max_retries + 1 <=> (t_pc = "raised" /\ t_stage = k)
    /\ t_pc = "raised" =>
         /\ t_error.stage = StageName(t_impl, t_stage)
         /\ t_error.attempts = t_max_retries + 1
         /\ t_error.kind \in {"TextGenerationError", "PipelineError"}

\* C7 witness: with a budget of at least one retry, the first stage returned
\* after exactly B outputs had failed validation.
C7_Witness ==
    /\ t_max_retries >= 1
    /\ StageReturned(1)
    /\ t_fails[1] = t_max_retries

CallsOf(source) == {k \in 1..Len(e_calls) : e_calls[k].source = source}

\* Some slot naming the source is marked batch.
NamedBatch(source) ==
    \E q \in 1..Len(e_config.slots) :
        e_config.slots[q].source = source /\ e_config.slots[q].batch_creatives

\* The generator-backed sources the v1 engine has finished resolving.
ResolvedGeneratorSources ==
    {SourceOrder(e_config)[q] : q \in 1..(e_src - 1)}
        \ {src \in generator_sources(e_config) : src.ns \in {"style", "cta"}}

\* C8 (as claimed): a batch source is resolved by exactly one generator call
\* with count = N and its result holds exactly N values; any other generator
\* source is resolved by one call with count = 1 per slot naming it, and the
\* value of that call is the slot's value in every creative submitted.
C8_GeneratorCallModes ==
    impl = "engine" =>
      \A source \in ResolvedGeneratorSources :
        LET slots == slots_by_source(e_config, source) IN
        IF NamedBatch(source)
        THEN /\ Cardinality(CallsOf(source)) = 1
             /\ \A k \in CallsOf(source) : e_calls[k].count = e_count
             /\ e_results[source].shape = "list"
             /\ Len(e_results[source].list) = e_count
        ELSE /\ Cardinality(CallsOf(source)) = Len(slots)
             /\ \A k \in CallsOf(source) : e_calls[k].count = 1
             /\ \A q \in 1..Len(slots) : \A j \in 1..Len(e_job_ids) :
                  ~ToggledOff(slots[q], e_inputs) =>
                     e_job_ids[j].layers[slots[q].name.layer][slots[q].name.prop]
                        = e_results[source].dict[slots[q].name]

\* C9 (as claimed): every source is resolved by exactly one generator call,
\* however many slots name it, in both engines.
C9_OneCallPerSource ==
    /\ impl = "engine" =>
         \A source \in ResolvedGeneratorSources : Cardinality(CallsOf(source)) = 1
    /\ impl = "engine_v2" =>
         \A source \in DOMAIN e_results : Cardinality(CallsOf(source)) = 1

\* C9 (amended): the v2 engine calls the generator of every source once, with
\* count = N, however many slots name it; the v1 engine does so for a batch
\* source only, and calls the generator of any other generator source once for
\* each slot naming it, in slot order.
C9_CallsPerSource ==
    /\ impl = "engine" =>
         \A source \in ResolvedGeneratorSources :
           LET slots == slots_by_source(e_config, source) IN
           IF NamedBatch(source)
           THEN /\ Cardinality(CallsOf(source)) = 1
                /\ \A k \in CallsOf(source) : e_calls[k].count = e_count
           ELSE /\ Cardinality(CallsOf(source)) = Len(slots)
                /\ \A q \in 1..Len(slots) :
                     \E k \in CallsOf(source) :
                        /\ e_calls[k].slot = slots[q].name
                        /\ e_calls[k].count = 1
                        /\ Cardinality({m \in CallsOf(source) : m < k}) = q - 1
    /\ impl = "engine_v2" =>
         /\ \A source \in DOMAIN e_results :
              /\ Cardinality(CallsOf(source)) = 1
              /\ \A k \in CallsOf(source) : e_calls[k].count = e_count
         /\ \A source \in generator_sources(e_config) : Cardinality(CallsOf(source)) <= 1

\* C9 witness: the v1 engine resolved a source that two slots name by two
\* generator calls and went on to submit.
C9_Witness ==
    /\ impl = "engine"
    /\ e_pc = "submit"
    /\ \E source \in ResolvedGeneratorSources :
         /\ Len(slots_by_source(e_config, source)) = 2
         /\ Cardinality(CallsOf(source)) = 2

PoolOf(config, source) == IF source.ns = "style" THEN config.style_pool ELSE config.cta_pool

\* C10: for a non-empty pool of length L and a count N, every resolution of a
\* style.* or cta.* source returns N values, the i-th being the named field
\* of pool entry i mod L; a second resolution returns the same list; for L = 4
\* and N = 12 each pool position is used 3 times, at i, i + 4 and i + 8.
\* get_styles_for_count cycles through STYLES in the same way.
C10_PoolCycles ==
    /\ pl_source.ns \in {"style", "cta"} =>
         LET pool == PoolOf(pl_config, pl_source)
             L == Len(pool)
         IN  /\ \A r \in 1..Len(pl_runs) :
                  IF L = 0 THEN pl_runs[r].raised
                  ELSE /\ ~pl_runs[r].raised
                       /\ Len(pl_runs[r].values) = pl_count
                       /\ \A i \in 0..(pl_count - 1) :
                            pl_runs[r].values[i + 1] = pool[(i % L) + 1][pl_source.field]
             /\ (L = 4 /\ pl_count = 12) =>
                  \A r \in 1..Len(pl_runs) : \A j \in 1..4 :
                     /\ Cardinality({i \in 1..12 : (i - 1) % 4 = j - 1}) = 3
                     /\ \A m \in 0..2 :
                          pl_runs[r].values[j + 4 * m] = pool[j][pl_source.field]
    /\ pl_source.ns = "STYLES" =>
         \A r \in 1..Len(pl_runs) :
            /\ Len(pl_runs[r].values) = pl_count
            /\ \A i \in 0..(pl_count - 1) :
                 pl_runs[r].values[i + 1] = STYLES[(i % 12) + 1]
    /\ \A r, q \in 1..Len(pl_runs) : pl_runs[r] = pl_runs[q]

\* C10 witness: a pool of four different values was resolved twice for
\* count 12.
C10_Witness ==
    /\ pl_source.ns = "style"
    /\ Len(pl_config.style_pool) = 4
    /\ \A a, b \in 1..4 : a # b => pl_config.style_pool[a] # pl_config.style_pool[b]
    /\ pl_count = 12
    /\ Len(pl_runs) = 2

\* The request switched the slot off: the slot is optional and the inputs hold
\* false under include_<layer>.
UserToggleFalse(slot) ==
    /\ slot.optional
    /\ toggle_name(slot.name.layer) \in DOMAIN e_inputs
    /\ e_inputs[toggle_name(slot.name.layer)] = FALSE

\* The property map has an entry under the slot's layer and property.
HasEntry(layers, name) ==
    name.layer \in DOMAIN layers /\ name.prop \in DOMAIN layers[name.layer]

\* C11: in every property map built (creative i = j - 1), a slot that is not
\* toggled off has an entry under its layer/property; the entry is the slot's
\* single broadcast value when its source resolved to one value, and the i-th
\* value when its source resolved to N values (batch, style or cta).
C11_ValueByShape ==
    impl \in Engines =>
      \A j \in 1..Len(e_job_ids) : \A q \in 1..Len(e_config.slots) :
        LET slot == e_config.slots[q]
            res == e_results[slot.source]
            layers == e_job_ids[j].layers
        IN  ~UserToggleFalse(slot) =>
              /\ HasEntry(layers, slot.name)
              /\ res.shape = "dict" =>
                    layers[slot.name.layer][slot.name.prop] = res.dict[slot.name]
              /\ (res.shape = "list" /\ Len(res.list) = 1) =>
                    layers[slot.name.layer][slot.name.prop] = res.list[1]
              /\ (res.shape = "list" /\ Len(res.list) = e_count) =>
                    layers[slot.name.layer][slot.name.prop] = res.list[j]

\* C11 witness: the v1 engine built the property maps of two creatives from a
\* per-slot broadcast value and from a list whose first two values differ.
C11_Witness ==
    /\ impl = "engine"
    /\ Len(e_job_ids) >= 2
    /\ \E q \in 1..Len(e_config.slots) : e_results[e_config.slots[q].source].shape = "dict"
    /\ \E q \in 1..Len(e_config.slots) :
         LET slot == e_config.slots[q]
             res == e_results[slot.source]
         IN  /\ res.shape = "list"
             /\ Len(res.list) = e_count
             /\ res.list[1] # res.list[2]
             /\ e_job_ids[2].layers[slot.name.layer][slot.name.prop] = res.list[2]

\* _resolve_sources has returned (every source of the config is resolved).
ResolutionDone ==
    IF impl = "engine" THEN e_src > Len(SourceOrder(e_config))
    ELSE generator_sources(e_config) \subseteq DOMAIN e_results

\* The call ended in the submit loop, while building the property map of
\* creative e_i.
BuildRaised == e_pc = "raised" /\ ResolutionDone /\ e_i < e_count

\* The slots naming the source, and the position of slot q among them (0-based).
SharingSlots(source) == {q \in 1..Len(e_config.slots) : e_config.slots[q].source = source}
PositionAmong(q) ==
    Cardinality({m \in SharingSlots(e_config.slots[q].source) : m < q})

\* C12 (as claimed): when a source resolved to a pool of L values, L other
\* than N, that k slots share, every creative c gets a value for each of those
\* slots, and the value at the slot in position p is pool[(c * k + p) mod L].
C12_SmartDistribution ==
    impl \in Engines =>
      /\ \A j \in 1..Len(e_job_ids) : \A q \in 1..Len(e_config.slots) :
           LET slot == e_config.slots[q]
               res == e_results[slot.source]
               layers == e_job_ids[j].layers
               k == Cardinality(SharingSlots(slot.source))
               L == Len(res.list)
           IN  (~UserToggleFalse(slot) /\ res.shape = "list" /\ L >= 1 /\ L # e_count) =>
                 /\ HasEntry(layers, slot.name)
                 /\ layers[slot.name.layer][slot.name.prop]
                      = res.list[((((j - 1) * k) + PositionAmong(q)) % L) + 1]
      /\ BuildRaised =>
           \E q \in 1..Len(e_config.slots) :
              LET res == e_results[e_config.slots[q].source]
              IN  res.shape = "list" /\ res.list = <<>>

\* C13: a slot the request switched off (optional, include_<layer> false) has
\* no entry under its layer/property in the property map of any creative, for
\* every count; and every slot is in all the property maps built or in none.
C13_ToggleRemovesSlot ==
    impl \in Engines =>
      \A q \in 1..Len(e_config.slots) :
        LET slot == e_config.slots[q] IN
        /\ UserToggleFalse(slot) =>
             \A j \in 1..Len(e_job_ids) : ~HasEntry(e_job_ids[j].layers, slot.name)
        /\ \A j \in 1..Len(e_job_ids) :
             HasEntry(e_job_ids[j].layers, slot.name)
                <=> HasEntry(e_job_ids[1].layers, slot.name)

\* C13 witness: the property maps of all N >= 2 creatives are built, the
\* header slot is switched off and in none of them, another slot is in all.
C13_Witness ==
    /\ impl \in Engines
    /\ e_count >= 2
    /\ Len(e_job_ids) = e_count
    /\ \E q \in 1..Len(e_config.slots) :
         /\ UserToggleFalse(e_config.slots[q])
         /\ \A j \in 1..Len(e_job_ids) : "header" \notin DOMAIN e_job_ids[j].layers
    /\ \E q \in 1..Len(e_config.slots) :
         \A j \in 1..Len(e_job_ids) : HasEntry(e_job_ids[j].layers, e_config.slots[q].name)

\* C14 (as claimed): generate returns N Creatives or nothing, and a failed
\* job submission (the submit call returned no job id) ends the call with a
\* failure, as a failed resolution, build or poll does.
C14_FailurePropagates ==
    impl \in Engines =>
      /\ e_pc = "returned" => Len(e_return) = e_count
      /\ e_pc # "returned" => e_return = <<>>
      /\ (\E k \in 1..Len(e_submit_log) : e_submit_log[k].job_id = 0) => e_pc = "raised"

\* generate has returned or raised.
EngineEnded == e_pc \in {"returned", "raised"}

\* C15: _poll_job polls a job at most max_attempts times; when that many polls
\* of the job answered neither finished (with a URL) nor error, the next step
\* raises the timeout, which ends the call; so generate returns or raises
\* whatever the render service answers, a job that never finishes included.
C15_PollingTerminates ==
    /\ [](e_attempt <= max_attempts)
    /\ [][(e_pc = "poll" /\ e_p <= Len(e_job_ids) /\ e_attempt = max_attempts)
            => (e_pc' = "raised" /\ e_return' = <<>>)]_vars
    /\ <>EngineEnded

\* C15 witness: the first job finished, the second was submitted and answered
\* a non-terminal status max_attempts times, and the call raised the timeout.
C15_Witness ==
    /\ impl \in Engines
    /\ e_pc = "raised"
    /\ e_i = e_count
    /\ e_p = 2
    /\ Len(e_job_ids) >= 2
    /\ e_job_ids[2].job_id # 0
    /\ e_attempt = max_attempts
    /\ Len(e_poll_log) = 1

\* Some registered job is SUBMITTED.
SomeSubmitted == \E j \in 1..JobCount : StatusOf(j) = SUBMITTED

\* C16: against a render service that ends up answering finished or error,
\* Orchestrator.run returns and CreativeService._poll_until_done returns or
\* raises; when run has returned every registered job is FINISHED or ERROR;
\* a poll round is started only while some job is SUBMITTED and poll_all
\* leaves its loop only when none is.
C16_BatchPollingEnds ==
    /\ [](o_pc = "returned" =>
            \A j \in 1..JobCount : StatusOf(j) \in {FINISHED, ERROR})
    /\ [][(o_pc = "poll_all" /\ o_pc' = "poll") => SomeSubmitted]_vars
    /\ [][(o_pc = "poll_all" /\ o_pc' = "returned") => ~SomeSubmitted]_vars
    /\ [][(s_pc = "poll_until_done" /\ s_pc' = "returned") => s_pending = {}]_vars
    /\ (impl = "orchestrator" => <>(o_pc = "returned"))
    /\ (impl = "service" => <>(s_pc \in {"returned", "raised"}))

\* C16 witness: run has returned two jobs, one finished and one ended in
\* error by a poll.
C16_Witness ==
    /\ impl = "orchestrator"
    /\ o_pc = "returned"
    /\ JobCount = 2
    /\ \E j \in 1..JobCount : StatusOf(j) = FINISHED
    /\ \E j \in o_poll_errors : StatusOf(j) = ERROR

\* The requests made for job j, and those of them answered 429.
RequestsOf(j) == {k \in 1..Len(r_log) : r_log[k].job = j}
RateLimitedOf(j) == {k \in RequestsOf(j) : r_log[k].status = 429}

\* C17: for every job submitted, at most max_retries requests are made; every
\* request but the job's last was answered 429 (so the first other answer is
\* the last request); each 429 answer is followed by a wait of 2^attempt
\* seconds (1, 2, 4, ...); a job whose max_retries requests were all answered
\* 429 gets no job id from submit, and the submit of the next job goes ahead
\* from attempt 0.
C17_RateLimitBackoff ==
    /\ \A j \in 1..Len(r_waits) :
         /\ Cardinality(RequestsOf(j)) <= max_retries
         /\ \A k \in RequestsOf(j) :
              /\ r_log[k].attempt = Cardinality({m \in RequestsOf(j) : m < k})
              /\ (\E m \in RequestsOf(j) : m > k) => r_log[k].status = 429
         /\ Len(r_waits[j]) = Cardinality(RateLimitedOf(j))
         /\ \A a \in 1..Len(r_waits[j]) : r_waits[j][a] = Pow2(a - 1)
         /\ (Cardinality(RateLimitedOf(j)) = max_retries) =>
              (j <= Len(r_returns) /\ r_returns[j] = 0)
         /\ (j <= Len(r_returns) /\ r_returns[j] # 0) =>
              \E k \in RequestsOf(j) : r_log[k].status = 200
         /\ (j <= Len(r_returns) /\ j < MaxClientJobs) => Len(r_waits) > j
    /\ r_pc = "done" <=> Len(r_returns) = MaxClientJobs

\* C17 witness: the first job was rate-limited max_retries times and got no
\* id; the second job was rate-limited once and then got its id.
C17_Witness ==
    /\ Len(r_returns) >= 2
    /\ r_returns[1] = 0
    /\ Cardinality(RateLimitedOf(1)) = max_retries
    /\ r_waits[1] = <<1, 2, 4, 8, 16>>
    /\ r_returns[2] = 2
    /\ r_waits[2] = <<1>>

\* The place of the slot's source in the order the v1 engine resolves sources.
SourcePos(slot) ==
    CHOOSE k \in 1..Len(SourceOrder(e_config)) : SourceOrder(e_config)[k] = slot.source

IsProductSlot(slot) == slot.source.ns = "image" /\ slot.source.field = "product"
SuppliedUrls == Get(e_inputs, "product_image_urls", <<>>)

\* The configuration errors of a slot: its pool is absent or empty; its
\* input_index is missing; its input_index is not below the number of URLs.
PoolMissing(slot) ==
    \/ slot.source.ns = "style" /\ e_config.style_pool = <<>>
    \/ slot.source.ns = "cta" /\ e_config.cta_pool = <<>>
IndexMissing(slot) ==
    IsProductSlot(slot) /\ "input_index" \notin DOMAIN slot.generator_config
IndexOutOfRange(slot) ==
    /\ IsProductSlot(slot)
    /\ "input_index" \in DOMAIN slot.generator_config
    /\ slot.generator_config.input_index >= Len(SuppliedUrls)

\* The generator calls made for the slot (a batch call serves every slot).
CallsFor(slot) ==
    {k \in CallsOf(slot.source) : e_calls[k].slot \in {slot.name, AllSlots}}

\* The v1 engine fails fast at the slot: resolution never gets past the slot's
\* source, at most one generator call is made for the slot and after it the
\* call has ended in the failure, and no render job is ever submitted.
FailsFastAt(slot) ==
    /\ e_pc \in {"resolve", "raised"}
    /\ e_src <= SourcePos(slot)
    /\ slot.source \in DOMAIN e_results => slot.name \notin DOMAIN e_results[slot.source].dict
    /\ Cardinality(CallsFor(slot)) <= 1
    /\ CallsFor(slot) # {} => e_pc = "raised"
    /\ e_submit_log = <<>>

\* C18 (as claimed): a style or cta slot without a pool, and an image.product
\* slot whose input_index is missing or not below the number of URLs
\* supplied, make the v1 engine fail fast.
C18_ConfigErrorsFailFast ==
    impl = "engine" =>
      \A q \in 1..Len(e_config.slots) :
        LET slot == e_config.slots[q] IN
        (PoolMissing(slot) \/ IndexMissing(slot) \/ IndexOutOfRange(slot)) => FailsFastAt(slot)

\* C18 (amended): a style or cta slot without a pool, an image.product slot
\* whose input_index is not below the number of URLs supplied, and an
\* image.product slot when no URL is supplied, make the v1 engine fail fast; a
\* missing input_index alone does not.
C18_ConfigErrorsButMissingIndex ==
    impl = "engine" =>
      \A q \in 1..Len(e_config.slots) :
        LET slot == e_config.slots[q] IN
        (\/ PoolMissing(slot)
         \/ IndexOutOfRange(slot)
         \/ IsProductSlot(slot) /\ SuppliedUrls = <<>>) => FailsFastAt(slot)

\* C18 witness: one URL is supplied; the first product image slot resolved,
\* the call for the second (input_index 1) raised and nothing was submitted.
C18_Witness ==
    /\ impl = "engine"
    /\ e_pc = "raised"
    /\ Len(SuppliedUrls) = 1
    /\ e_submit_log = <<>>
    /\ \E q \in 1..Len(e_config.slots) :
         LET slot == e_config.slots[q] IN
         /\ IndexOutOfRange(slot)
         /\ Cardinality(CallsFor(slot)) = 1
         /\ Cardinality(CallsOf(slot.source)) = 2
         /\ e_src = SourcePos(slot)

\* The row each line of a stage's output parses to (<<>> for a line that is
\* no row).
RowsOfOutput(output) ==
    [m \in 1..Len(output) |->
        IF t_impl = "product_cluster" THEN PairedRowOfLine(output[m]) ELSE RowOfLine(output[m])]

\* The texts the rows of index k carry among the parsed lines of an output.
TextsAt(rows, k) ==
    {IF t_impl = "product_cluster" THEN <<rows[n][1].header, rows[n][1].main_text>>
     ELSE rows[n][1].text :
       n \in {m \in 1..Len(rows) : rows[m] # <<>> /\ rows[m][1].index = k}}

\* The fixed header row of the table a stage receives.
HeaderRow ==
    IF t_impl = "product_cluster" THEN <<Txt("Variation #"), Txt("Header"), Txt("Main Text")>>
    ELSE <<Txt("Variation #"), Txt("Text")>>

\* table is the header row followed by exactly the rows of output, one
\* index<TAB>text line per index, in ascending index order.
IsTableOf(table, output) ==
    LET rows == RowsOfOutput(output) IN
    \E h \in 1..Len(table) :
        /\ table[h] = HeaderRow
        /\ Len(table) = h + ExpectedRows
        /\ \A k \in 1..ExpectedRows :
             /\ table[h + k][1] = Num(k)
             /\ TextOf(Tail(table[h + k])) \in TextsAt(rows, k)

\* C19: the backend calls are made in the order creator, editor, final
\* toucher: the first call is the creator's, a call of a later stage follows
\* a call of the same stage or a validated output of the stage before it, and
\* its user message holds the previous stage's validated rows as a table (the
\* header row, then index<TAB>text lines in ascending index order); once a
\* stage has exhausted its budget its last failed call is the last call made.
C19_StagesInOrder ==
    /\ \A i \in 1..Len(t_calls) :
         LET c == t_calls[i] IN
         /\ i = 1 => c.stage = 1
         /\ i > 1 =>
              \/ c.stage = t_calls[i - 1].stage
              \/ c.stage = t_calls[i - 1].stage + 1 /\ t_calls[i - 1].outcome = "valid"
         /\ c.stage = 1 => c.prev_tsv = <<>>
         /\ c.stage > 1 =>
              /\ StageReturned(c.stage - 1)
              /\ ~validate(t_impl, t_outputs[c.stage - 1]).raised
              /\ IsTableOf(c.prev_tsv, t_outputs[c.stage - 1])
    /\ t_pc = "raised" =>
         /\ t_calls[Len(t_calls)].stage = t_stage
         /\ t_calls[Len(t_calls)].outcome = "invalid"
         /\ Len(t_outputs) = t_stage - 1

\* C19 witness: the creator and the editor each returned the table written
\* upside down under a heading, and the final toucher exhausted a budget of
\* at least one retry.
C19_Witness ==
    /\ t_pc = "raised"
    /\ t_stage = Len(STAGES)
    /\ t_max_retries >= 1
    /\ t_outputs = <<TableReversed, TableReversed>>
    /\ Len(t_calls) = Len(t_outputs) + Attempts(t_max_retries)

\* C20: a stage calls the backend again only after an output that failed the
\* validation; a call that raised is the last call made, and the exception it
\* raised is the one that leaves the pipeline, not a stage failure.
C20_OnlyParseFailureRetried ==
    /\ \A i \in 1..Len(t_calls) :
         LET c == t_calls[i] IN
         /\ (i < Len(t_calls) /\ t_calls[i + 1].stage = c.stage) => c.outcome = "invalid"
         /\ c.outcome \in BackendErrors =>
              /\ i = Len(t_calls)
              /\ t_pc = "failed"
              /\ t_error.kind = c.outcome
    /\ t_pc = "failed" =>
         /\ t_calls # <<>>
         /\ t_calls[Len(t_calls)].outcome \in BackendErrors
         /\ t_error.kind \notin {"TextGenerationError", "PipelineError"}

\* C20 witness: the editor's first output failed the validation and was
\* retried; its second call raised with attempts of the budget left, and the
\* pipeline failed with that exception.
C20_Witness ==
    /\ t_pc = "failed"
    /\ t_stage = 2
    /\ t_fails[t_stage] = 1
    /\ t_attempt + 1 < Attempts(t_max_retries)
    /\ t_calls[Len(t_calls)].outcome = "RateLimitError"
    /\ t_error.kind = "RateLimitError"

\* The property maps _build_layers has returned so far in the call.
MapsBuilt == Len(e_job_ids)

\* C21 (as claimed): no render job is submitted before every source is
\* resolved and all N property maps are built, so a call that failed in
\* resolution or while building a property map has submitted no job.
C21_BuildBeforeSubmit ==
    impl \in Engines =>
      /\ e_submit_log # <<>> => (ResolutionDone /\ MapsBuilt = e_count)
      /\ (e_pc = "raised" /\ ~ResolutionDone) => e_submit_log = <<>>
      /\ BuildRaised => e_submit_log = <<>>

\* The flow is in its poll phase or past it.
EnginePollPhase == e_pc \in {"poll", "returned", "raised"}
OrchPollPhase == o_pc \in {"poll_all", "poll", "returned"}
SvcPollPhase == s_pc \in {"poll_until_done", "poll", "returned", "raised"}

\* C22: in the engine, the service and the orchestrator a poll call is made
\* only in the poll phase, after the submit call for every one of the N
\* creatives has been made; the poll phase is never left and no submit call
\* is made in it.
C22_SubmitPhaseThenPollPhase ==
    /\ [][E_Poll => (e_pc = "poll" /\ Len(e_submit_log) = e_count)]_vars
    /\ [][O_Poll => (o_pc = "poll" /\ Len(o_submit_calls) = Len(tracker.all_jobs))]_vars
    /\ [][S_Poll => (s_pc = "poll" /\ s_submit_calls = s_n)]_vars
    /\ [][EnginePollPhase => (EnginePollPhase' /\ e_submit_log' = e_submit_log)]_vars
    /\ [][OrchPollPhase => (OrchPollPhase' /\ o_submit_calls' = o_submit_calls)]_vars
    /\ [][SvcPollPhase => (SvcPollPhase' /\ s_submit_calls' = s_submit_calls)]_vars

\* C22 witness: the engine submitted both creatives of a call, the first job
\* finished and the second was polled once without a terminal answer.
C22_Witness ==
    /\ impl = "engine"
    /\ e_pc = "poll"
    /\ e_count = 2
    /\ Len(e_submit_log) = e_count
    /\ e_p = e_count
    /\ e_attempt = 1
    /\ Len(e_poll_log) = 1

\* The poll of job_id that ended its polling answered finished with a URL.
FinishedWithUrl(job_id, url) ==
    \E k \in 1..Len(e_poll_log) :
        /\ e_poll_log[k].job_id = job_id
        /\ e_poll_log[k].status = "finished"
        /\ e_poll_log[k].url = url

\* C23 (as claimed): every Creative built, in the engine and in the service,
\* belongs to a job that obtained a job id and whose poll answered finished,
\* and carries the URL the render service returned for that job, never None.
C23_CreativeOnlyWhenFinished ==
    /\ impl \in Engines =>
         \A k \in 1..Len(e_creatives) :
            /\ e_job_ids[k].job_id # 0
            /\ e_creatives[k].creative_url # 0
            /\ e_creatives[k].creative_url = UrlOf(e_job_ids[k].job_id)
            /\ FinishedWithUrl(e_job_ids[k].job_id, e_creatives[k].creative_url)
    /\ (impl = "service" /\ s_pc = "returned") =>
         \A k \in 1..Len(s_result) :
            /\ s_job_ids[k] # 0
            /\ s_result[k].image_url # 0
            /\ s_result[k].image_url = UrlOf(s_job_ids[k])

\* The label at position i (0-based) of ["dark", "light"] repeated.
AlternatingLabel(i) == IF i % 2 = 0 THEN "dark" ELSE "light"

\* The variants of the default count of creatives under the alternating
\* sequence: dark, light, dark, ...
AlternatingByDefault ==
    \A i \in 0..(DefaultCount - 1) :
       VariantFor(ALTERNATING_CONFIG, i) = [raised |-> FALSE, variant |-> AlternatingLabel(i)]

\* C24: the job of creative i is submitted with, and its Creative recorded
\* with, the variant variant_sequence[i] when the config has a sequence and
\* the first variant otherwise; with the sequence ["dark", "light"] * 6 the
\* variants of the default count of creatives alternate, starting with dark.
C24_VariantOfPosition ==
    /\ impl \in Engines =>
         /\ \A k \in 1..Len(e_job_ids) :
              /\ e_submit_log[k].creative = k - 1
              /\ e_job_ids[k].variant = VariantOfPosition(e_config, k - 1)
              /\ InSeq(e_config.variants, e_job_ids[k].variant)
         /\ \A k \in 1..Len(e_creatives) :
              e_creatives[k].variant = VariantOfPosition(e_config, k - 1)
         /\ e_pc = "returned" =>
              \A k \in 1..Len(e_return) :
                 e_return[k].variant = VariantOfPosition(e_config, k - 1)
    /\ AlternatingByDefault

\* C24 witness: a call with the alternating sequence returned at least three
\* Creatives, recorded dark, light, dark.
C24_Witness ==
    /\ impl \in Engines
    /\ e_config = ALTERNATING_CONFIG
    /\ e_pc = "returned"
    /\ Len(e_return) >= 3
    /\ e_return[1].variant = "dark"
    /\ e_return[2].variant = "light"
    /\ e_return[3].variant = "dark"

\* C25: no step of a generate call changes the config (slots with their
\* generator_config, pools, variants, variant sequence) or the caller's
\* inputs map.
C25_ConfigAndInputsUnchanged ==
    [][(impl \in Engines) => (e_config' = e_config /\ e_inputs' = e_inputs)]_vars

\* C25 witness: a call given a non-empty inputs map returned after a generator
\* was called for a slot whose generator_config was overlaid on the inputs;
\* none of that slot's keys is in the caller's map.
C25_Witness ==
    /\ impl \in Engines
    /\ e_pc = "returned"
    /\ e_inputs # <<>>
    /\ \E q \in 1..Len(e_config.slots) :
         LET slot == e_config.slots[q] IN
         /\ slot.generator_config # NoConfig
         /\ CallsOf(slot.source) # {}
         /\ DOMAIN slot.generator_config \cap DOMAIN e_inputs = {}

\* The backend calls made for stage k, as positions of the call history.
StageCalls(k) == {i \in 1..Len(t_calls) : t_calls[i].stage = k}

\* C26: a stage makes at most max_retries + 1 backend calls, all with the
\* same request; a call whose output validates is the stage's last call; the
\* stage raises exactly when max_retries + 1 outputs in a row failed the
\* validation, and the failure names the stage and carries the validation
\* error of the last attempt.
C26_BoundedIdenticalRetries ==
    /\ \A k \in 1..Len(STAGES) :
         /\ Cardinality(StageCalls(k)) <= t_max_retries + 1
         /\ \A i, j \in StageCalls(k) : t_calls[i].prev_tsv = t_calls[j].prev_tsv
         /\ \A i \in StageCalls(k) :
              t_calls[i].outcome = "valid" => \A j \in StageCalls(k) : j <= i
    /\ t_pc = "raised" <=>
         /\ Cardinality(StageCalls(t_stage)) = t_max_retries + 1
         /\ \A i \in StageCalls(t_stage) : t_calls[i].outcome = "invalid"
    /\ t_pc = "raised" =>
         /\ t_error.stage = StageName(t_impl, t_stage)
         /\ t_error.last_error # ""
         /\ t_error.last_error = t_calls[Len(t_calls)].error

\* C26 witness: with a budget of two retries the editor's three outputs failed
\* the validation, the first and the last for different reasons, and the stage
\* raised.
C26_Witness ==
    /\ t_pc = "raised"
    /\ t_stage = 2
    /\ t_max_retries = 2
    /\ Cardinality(StageCalls(t_stage)) = t_max_retries + 1
    /\ \E i \in StageCalls(t_stage) : t_calls[i].error # t_calls[Len(t_calls)].error
    /\ t_error.last_error = t_calls[Len(t_calls)].error

\* The lines the leniency is about: a blank line, a line starting with '#', a
\* recognised header row, a line that does not match the row pattern.
Skipped(raw_line, paired) ==
    LET line == Strip(raw_line) IN
    \/ line = <<>>
    \/ StartsWithHash(line)
    \/ IF paired THEN IsPairedHeaderRow(line) ELSE IsHeaderRow(line)
    \/ IF paired THEN Len(line) < 3 \/ ~line[1].digits
       ELSE ~(line[1].digits /\ Len(line) >= 2)

\* content without its skipped lines.
RECURSIVE WithoutSkipped(_, _)
WithoutSkipped(content, paired) ==
    IF content = <<>> THEN <<>>
    ELSE (IF Skipped(Head(content), paired) THEN <<>> ELSE <<Head(content)>>)
         \o WithoutSkipped(Tail(content), paired)

ParserOf(content, paired) == IF paired THEN _parse_paired_tsv(content) ELSE parse(content)

\* C27: the parser's outcome on a text (the rows returned, or the kind of
\* failure) is its outcome on the text with every skipped line taken out; so
\* two texts that differ only in skipped lines, wherever these are added or
\* removed, have the same outcome.
C27_SkippedLinesChangeNothing ==
    p_pc = "parsed" =>
        LET paired == p_variant = "paired"
            bare == ParserOf(WithoutSkipped(p_content, paired), paired)
        IN  /\ p_out.raised = bare.raised
            /\ p_out.rows = bare.rows
            /\ p_out.message = bare.message

\* C27 witness: a three-column text with a two-field line among its rows was
\* parsed to its rows.
C27_Witness ==
    /\ p_pc = "parsed"
    /\ p_variant = "paired"
    /\ ~p_out.raised
    /\ \E k \in 1..Len(p_content) : p_content[k] = <<Num(1), Txt("Foo")>>
    /\ Len(WithoutSkipped(p_content, TRUE)) < Len(p_content)

\* C28 (as claimed): once the v1 engine has resolved a config's sources, the
\* result stored for the source of every slot that is not toggled off has the
\* shape the slot's lookup expects: a list for a batch, style or cta slot, a
\* map that has the slot's name for any other slot.
C28_LookupMatchesShape ==
    (impl = "engine" /\ ResolutionDone /\ e_pc # "resolve") =>
        \A q \in 1..Len(e_config.slots) :
            LET slot == e_config.slots[q] IN
            (~ToggledOff(slot, e_inputs) /\ slot.source \in DOMAIN e_results) =>
                IF ByCreative(slot)
                THEN e_results[slot.source].shape = "list"
                ELSE /\ e_results[slot.source].shape = "dict"
                     /\ slot.name \in DOMAIN e_results[slot.source].dict


\* The job the engine's poll loop is at, and whether this step polled it.
PolledNow == impl \in Engines /\ e_pc = "poll" /\ (e_poll_log' # e_poll_log \/ e_attempt' = e_attempt + 1)

\* C29: the engine polls the jobs one at a time in submission order. The
\* terminal answers it has seen are those of jobs 1..k in that order, every one
\* but the last a finished answer with a URL, so an error of a later job is seen
\* only after all earlier jobs finished; the loop moves to the next job only on
\* a finished answer with a URL and then starts that job's attempts at zero, so
\* the ceiling max_attempts bounds the polls of each job separately.
C29_SequentialPolling ==
    /\ [](impl \in Engines =>
            /\ Len(e_poll_log) <= Len(e_job_ids)
            /\ e_attempt \in 0..max_attempts
            /\ \A k \in 1..Len(e_poll_log) :
                 /\ e_poll_log[k].job_id = e_job_ids[k].job_id
                 /\ k < Len(e_poll_log) =>
                      (e_poll_log[k].status = "finished" /\ e_poll_log[k].url # 0)
            /\ e_pc \in {"poll", "returned", "raised"} /\ e_i = e_count /\ e_p >= 1 =>
                 /\ \A k \in 1..(e_p - 1) :
                      (e_poll_log[k].status = "finished" /\ e_poll_log[k].url # 0)
                 /\ Len(e_poll_log) \in {e_p - 1, e_p}
                 /\ Len(e_poll_log) = e_p => e_poll_log[e_p].status = "error")
    /\ [][(PolledNow) =>
            /\ e_p <= Len(e_job_ids)
            /\ e_attempt < max_attempts
            /\ e_p' \in {e_p, e_p + 1}
            /\ e_p' = e_p + 1 =>
                 /\ e_attempt' = 0
                 /\ Len(e_poll_log') = e_p
                 /\ e_poll_log'[e_p].job_id = e_job_ids[e_p].job_id
                 /\ e_poll_log'[e_p].status = "finished"
                 /\ e_poll_log'[e_p].url # 0
            /\ e_p' = e_p =>
                 \/ e_attempt' = e_attempt + 1 /\ e_poll_log' = e_poll_log
                 \/ e_pc' = "raised" /\ e_attempt' = e_attempt]_vars
    /\ [][(impl \in Engines /\ e_p' # e_p /\ e_pc = "poll") => PolledNow]_vars

\* C29 witness: three jobs; the first finished, the second was polled
\* max_attempts times of its own and answered error on the last of them, and
\* the third was never polled.
C29_Witness ==
    /\ impl = "engine"
    /\ e_pc = "raised"
    /\ Len(e_job_ids) = 3
    /\ e_p = 2
    /\ e_attempt = max_attempts - 1
    /\ Len(e_poll_log) = 2
    /\ e_poll_log[1].status = "finished"
    /\ e_poll_log[2].status = "error"
    /\ Len(e_creatives) = 1


\* The response poll_job got was a failed request: a transport error, or a
\* response with an error status (a 429 among them, which _request_with_retry
\* hands back only after its last attempt).
RequestFailed(entry) == entry.status_code # 200

\* C30: a poll whose HTTP request failed is reported by the client as status
\* error with no URL, and a poll reported as error, whether the request failed
\* or the service answered that the render failed, is the last poll of the
\* batch: the loop raises "Placid job failed", and no job is polled after it.
\* A 429 is handed back to poll_job only by the last of max_retries requests.
C30_FailedPollEndsBatch ==
    /\ [](q_pc # "idle" =>
            /\ \A k \in 1..Len(q_log) :
                 /\ RequestFailed(q_log[k]) =>
                      (q_log[k].status = "error" /\ q_log[k].url = 0 /\ q_log[k].error # "")
                 /\ q_log[k].status = "error" =>
                      /\ k = Len(q_log)
                      /\ q_pc = "raised"
                      /\ q_error = <<"Placid job failed", q_log[k].error>>
                      /\ q_job = q_log[k].job
                 /\ q_log[k].status_code = 429 =>
                      (k = Len(q_log) /\ q_attempt = max_retries - 1)
            /\ q_pc = "raised" =>
                 (q_log # <<>> /\ q_error # <<>>
                    /\ (q_error[1] = "Placid job timed out" =>
                          (q_poll = max_attempts - 1 /\ q_log[Len(q_log)].status # "error"))))
    /\ [][(q_pc = "raised") => UNCHANGED poll_vars]_vars
    /\ [][(q_pc = "request" /\ q_log' = q_log /\ q_attempt' # q_attempt) =>
            (q_attempt' = q_attempt + 1 /\ q_attempt' < max_retries
               /\ UNCHANGED <<q_job, q_poll, q_pc>>)]_vars

\* C30 witness: the first job finished; the second job's poll was answered 429
\* by every one of its max_retries requests, poll_job returned error and the
\* loop raised on that first poll of the job.
C30_Witness ==
    /\ q_pc = "raised"
    /\ Len(q_log) = 2
    /\ q_log[1].status = "finished"
    /\ q_log[2].job = 2
    /\ q_log[2].status_code = 429
    /\ q_log[2].status = "error"
    /\ q_poll = 0
    /\ q_attempt = max_retries - 1
    /\ q_error[1] = "Placid job failed"


\* The polls of job j made so far, as positions of q_log.
PollsOf(j) == {k \in 1..Len(q_log) : q_log[k].job = j}

FinishedNoUrl(entry) == entry.status = "finished" /\ entry.url = 0

\* C31: a poll answered finished without a URL does not end the job's polling:
\* the job is polled again (the next poll_job call is for the same job), or, if
\* that was the poll that reached the ceiling, the call raises "Placid job
\* timed out". The URL _poll_job returns for a job, the one its Creative gets,
\* is that of a finished answer and is never empty.
C31_FinishedWithoutUrlKeepsPolling ==
    q_pc # "idle" =>
      /\ \A k \in 1..Len(q_log) :
           FinishedNoUrl(q_log[k]) =>
             IF k < Len(q_log)
             THEN /\ q_log[k + 1].job = q_log[k].job
                  /\ q_log[k + 1].poll = q_log[k].poll + 1
             ELSE \/ /\ q_pc = "request"
                     /\ q_job = q_log[k].job
                     /\ q_poll = q_log[k].poll + 1
                  \/ /\ q_pc = "raised"
                     /\ q_error = <<"Placid job timed out">>
                     /\ q_log[k].poll = max_attempts - 1
      /\ \A j \in 1..MaxClientJobs :
           (j < q_job \/ q_pc = "returned") =>
             \E k \in PollsOf(j) :
               /\ \A m \in PollsOf(j) : m <= k
               /\ q_log[k].status = "finished"
               /\ q_log[k].url = UrlOf(j)
               /\ q_log[k].url # 0
      /\ \A j \in 1..MaxClientJobs : Cardinality(PollsOf(j)) <= max_attempts

\* C31 witness: the first job was answered finished without a URL and then
\* finished with its URL; the second job was answered finished without a URL
\* by every poll up to the ceiling and the call timed out.
C31_Witness ==
    /\ q_pc = "raised"
    /\ q_error = <<"Placid job timed out">>
    /\ Len(q_log) = 2 + max_attempts
    /\ FinishedNoUrl(q_log[1])
    /\ q_log[2].status = "finished" /\ q_log[2].url = UrlOf(1)
    /\ \A k \in 3..Len(q_log) : q_log[k].job = 2 /\ FinishedNoUrl(q_log[k])


\* A row whose index is outside 1..ExpectedRows.
OutOfRange(raw_line) ==
    LET line == Strip(raw_line) IN
    line # <<>> /\ line[1].digits /\ (line[1].num < 1 \/ line[1].num > ExpectedRows)

\* A row with an empty text field (an empty header or main text).
EmptyField(raw_line, paired) ==
    LET line == Strip(raw_line) IN
    IF paired THEN Len(line) >= 3 /\ (line[2].txt = "" \/ line[3].txt = "")
    ELSE Len(line) >= 2 /\ TextOf(StripLeft(Tail(line))) = <<>>

\* A line that matches the row pattern and is dropped all the same.
Dropped(raw_line, paired) ==
    /\ ~Skipped(raw_line, paired)
    /\ (OutOfRange(raw_line) \/ EmptyField(raw_line, paired))

RECURSIVE WithoutDropped(_, _)
WithoutDropped(content, paired) ==
    IF content = <<>> THEN <<>>
    ELSE (IF Dropped(Head(content), paired) THEN <<>> ELSE <<Head(content)>>)
         \o WithoutDropped(Tail(content), paired)

RowHasText(row, paired) ==
    IF paired THEN row.header # "" /\ row.main_text # "" ELSE row.text # <<>>

\* C32: a matching row whose index is outside 1..ExpectedRows or whose text
\* field is empty is dropped before the validation: the parser's outcome on a
\* text is its outcome on the text without those rows, so they cause no
\* failure, and no returned row has such an index or an empty field.
C32_DroppedRowsChangeNothing ==
    p_pc = "parsed" =>
        LET paired == p_variant = "paired"
            bare == ParserOf(WithoutDropped(p_content, paired), paired)
        IN  /\ p_out.raised = bare.raised
            /\ p_out.rows = bare.rows
            /\ p_out.message = bare.message
            /\ \A k \in 1..Len(p_out.rows) :
                 /\ p_out.rows[k].index \in 1..ExpectedRows
                 /\ RowHasText(p_out.rows[k], paired)

\* C32 witness: the rows 1..ExpectedRows and, among them, one row of index 0
\* or of index ExpectedRows + 1, parsed to exactly the rows 1..ExpectedRows.
C32_Witness ==
    /\ p_pc = "parsed"
    /\ p_variant = "plain"
    /\ ~p_out.raised
    /\ Len(p_content) = ExpectedRows + 1
    /\ \E k \in 1..Len(p_content) : OutOfRange(p_content[k]) /\ Dropped(p_content[k], FALSE)
    /\ [k \in 1..Len(p_out.rows) |-> p_out.rows[k].index] = [k \in 1..ExpectedRows |-> k]


\* inputs overlaid by the generator_config of each of the slots, in slot order.
RECURSIVE OverlayAll(_, _)
OverlayAll(inputs, slots) ==
    IF slots = <<>> THEN inputs
    ELSE OverlayAll(Head(slots).generator_config @@ inputs, Tail(slots))

\* C33 (as claimed): once the sources are resolved, a source none of whose
\* slots is a batch slot (v1; the v2 engine resolves every source in one call
\* for the batch) was resolved by one generator call per referencing slot, each seeing the user inputs overlaid by that slot's generator_config
\* only (so each product grid cell is resolved with its own input_index); a
\* batch source was resolved by a call seeing the inputs overlaid by the
\* generator_config of every referencing slot, in slot order.
C33_SlotConfigOverlay ==
    (impl \in Engines /\ ResolutionDone) =>
        \A source \in generator_sources(e_config) :
            LET slots == slots_by_source(e_config, source) IN
            source.ns \notin {"style", "cta"} =>
                IF impl = "engine_v2" \/ AnyBatch(slots)
                THEN \E k \in CallsOf(source) :
                        e_calls[k].inputs = OverlayAll(e_inputs, slots)
                ELSE \A q \in 1..Len(slots) :
                        \E k \in CallsOf(source) :
                            /\ e_calls[k].slot \in {slots[q].name, AllSlots}
                            /\ e_calls[k].inputs = slots[q].generator_config @@ e_inputs


\* The generator calls of a whole resolution, as (source, slot, count), from
\* the config and the count alone: one call for a batch source, one per
\* referencing slot (toggled off or not) for any other generator source.
RECURSIVE ExpectedCallsOf(_, _, _, _)
ExpectedCallsOf(config, source, slots, count) ==
    IF source.ns \in {"style", "cta"} THEN <<>>
    ELSE IF AnyBatch(slots_by_source(config, source)) THEN << <<source, AllSlots, count>> >>
    ELSE IF slots = <<>> THEN <<>>
    ELSE << <<source, Head(slots).name, 1>> >> \o ExpectedCallsOf(config, source, Tail(slots), count)

RECURSIVE ExpectedCallsFrom(_, _, _)
ExpectedCallsFrom(config, k, count) ==
    IF k > Len(SourceOrder(config)) THEN <<>>
    ELSE LET source == SourceOrder(config)[k] IN
         ExpectedCallsOf(config, source, slots_by_source(config, source), count)
         \o ExpectedCallsFrom(config, k + 1, count)

ExpectedCalls(config, count) == ExpectedCallsFrom(config, 1, count)

CallsMade == [k \in 1..Len(e_calls) |-> <<e_calls[k].source, e_calls[k].slot, e_calls[k].count>>]

\* The slot a generator call was made for is toggled off by the inputs.
CallForOffSlot(call) ==
    \E q \in 1..Len(e_config.slots) :
        /\ e_config.slots[q].name = call.slot
        /\ e_config.slots[q].source = call.source
        /\ ToggledOff(e_config.slots[q], e_inputs)

\* C34: in the v1 engine a toggle affects layer building only. The generator
\* calls of the resolution are those the config and the count fix, whatever the
\* inputs toggle off: made in that order, all of them once the resolution is
\* done; a call for one slot that returns nothing stores nothing and ends
\* generate before any job is submitted, for a slot that is toggled off as for
\* any other, and every call either stores its result or ends generate; and
\* the map built for a creative has no entry for a slot that is toggled off.
C34_ToggleAffectsBuildOnly ==
    /\ [](impl = "engine" =>
            /\ Len(e_calls) <= Len(ExpectedCalls(e_config, e_count))
            /\ CallsMade = SubSeq(ExpectedCalls(e_config, e_count), 1, Len(e_calls))
            /\ ResolutionDone => CallsMade = ExpectedCalls(e_config, e_count)
            /\ \A k \in 1..Len(e_calls) :
                 (e_calls[k].slot # AllSlots /\ e_calls[k].returned = 0) =>
                   (k = Len(e_calls) /\ e_pc = "raised" /\ ~ResolutionDone
                      /\ e_submit_log = <<>>)
            /\ \A k \in 1..Len(e_job_ids) : \A q \in 1..Len(e_config.slots) :
                 LET slot == e_config.slots[q] IN
                 ToggledOff(slot, e_inputs) =>
                   (slot.name.layer \notin DOMAIN e_job_ids[k].layers
                      \/ slot.name.prop \notin DOMAIN e_job_ids[k].layers[slot.name.layer]))
    /\ [][(impl = "engine" /\ e_calls' # e_calls) =>
            /\ Len(e_calls') = Len(e_calls) + 1
            /\ (e_pc' = "raised") = (e_results' = e_results)
            /\ e_pc' # "raised" => e_calls'[Len(e_calls')].source \in DOMAIN e_results']_vars

\* C34 witness: the optional cluster image slot is toggled off, its generator
\* was called all the same and failed, and generate ended there.
C34_Witness ==
    /\ impl = "engine"
    /\ e_config = OVERLAY_CONFIG
    /\ ~Get(e_inputs, "include_header", TRUE)
    /\ e_pc = "raised"
    /\ ~ResolutionDone
    /\ Len(e_calls) = 2
    /\ CallForOffSlot(e_calls[2])
    /\ e_calls[2].returned = 0
    /\ e_submit_log = <<>>


\* The processed image of a URL, as the generator returns it.
ProcessedUrl(url) == <<"product", url, Get(g_inputs, "aspect_ratio", "1:1")>>

CyclingMode == "input_index" \notin DOMAIN g_inputs

\* C35: in cycling mode with k >= 1 URLs and count N the URLs are handed to the
\* processing one by one in input order, each list entry once; when every one
\* was processed generate returns exactly N values, the i-th (from 0) the
\* processed image of URL i mod k, the value the engine's generator model
\* gives; with no URLs it raises and nothing was processed.
C35_CyclingProductImages ==
    (CyclingMode /\ g_pc \in {"loop", "returned", "raised"}) =>
        LET image_urls == Get(g_inputs, "product_image_urls", <<>>)
            k == Len(image_urls)
        IN  /\ Len(g_log) <= k
            /\ \A j \in 1..Len(g_log) : g_log[j] = <<j - 1, image_urls[j]>>
            /\ k = 0 => (g_pc = "raised" /\ g_log = <<>>)
            /\ g_pc = "loop" => (Len(g_log) = g_i /\ Len(g_unique) = g_i)
            /\ g_pc = "returned" =>
                 /\ k >= 1
                 /\ Len(g_log) = k
                 /\ Len(g_out) = g_count
                 /\ \A i \in 0..(g_count - 1) : g_out[i + 1] = ProcessedUrl(image_urls[(i % k) + 1])
                 /\ g_out = ProductImageGenerator_generate(
                                GenerationContext(g_inputs, g_count), TRUE).values

\* C35 witness: two URLs and count 3: each URL was processed once, in order,
\* and the third value returned is the first URL's image again.
C35_Witness ==
    /\ CyclingMode
    /\ g_pc = "returned"
    /\ g_inputs.product_image_urls = <<"u1", "u2">>
    /\ g_count = 3
    /\ g_log = << <<0, "u1">>, <<1, "u2">> >>
    /\ g_out = <<ProcessedUrl("u1"), ProcessedUrl("u2"), ProcessedUrl("u1")>>


\* The error text holds 503 or 429.
Holds503Or429(text) == text \in {"503 UNAVAILABLE", "429 RESOURCE_EXHAUSTED", "took 4290 ms"}

\* C36: the retry wrapper calls the wrapped request at most max_retries (5)
\* times. Every call but the last one made raised an error whose text holds
\* 503 or 429, and was followed by a wait of 2^attempt seconds; a call that
\* returns is the last call and its value is returned; an error whose text
\* holds neither code is re-raised at once, and an error of the last attempt
\* is re-raised whatever its text.
C36_RetryWrapper ==
    (m_pc # "idle") =>
        /\ Len(m_log) <= gemini_max_retries
        /\ m_attempt < gemini_max_retries
        /\ Len(m_waits) = m_attempt
        /\ \A k \in 1..Len(m_waits) : m_waits[k] = 2 ^ (k - 1)
        /\ Len(m_log) = IF m_pc = "call" THEN m_attempt ELSE m_attempt + 1
        /\ \A k \in 1..Len(m_log) :
             (k < Len(m_log) \/ m_pc = "call") =>
               (~m_log[k].ok /\ Holds503Or429(m_log[k].text))
        /\ m_pc = "returned" => (m_log[Len(m_log)].ok /\ m_out = m_log[Len(m_log)].text)
        /\ m_pc = "raised" =>
             /\ ~m_log[Len(m_log)].ok
             /\ m_out = m_log[Len(m_log)].text
             /\ (~Holds503Or429(m_out) \/ Len(m_log) = gemini_max_retries)
             /\ Holds503Or429(m_out) => Len(m_log) = gemini_max_retries

\* C36 witness: five calls, every one answered by a 503 or 429 error; the
\* waits were 1, 2, 4 and 8 seconds and the fifth error was re-raised.
C36_Witness ==
    /\ m_pc = "raised"
    /\ Len(m_log) = gemini_max_retries
    /\ m_waits = <<1, 2, 4, 8>>
    /\ m_log[1].text = "503 UNAVAILABLE"
    /\ m_out = "429 RESOURCE_EXHAUSTED"


\* C37 (as claimed): every variation the text pipeline returns has batch_num
\* in {1, 2, 3} and color_index in {0, 1, 2}, get_variant_by_index succeeds for
\* it, and submit_all_images never fails on an invalid batch.
C37_EveryVariationHasAVariant ==
    h_pc # "idle" =>
        /\ \A k \in 1..Len(h_variations) :
             /\ h_variations[k].batch_num \in {1, 2, 3}
             /\ h_variations[k].color_index \in {0, 1, 2}
             /\ ~get_variant_by_index(h_variations[k].batch_num,
                                      h_variations[k].color_index).raised
        /\ h_error # "Invalid batch_num"


\* The formatter of the parser's variant, on the heading of the run's topic.
FormatterOf(rows, paired) ==
    IF paired THEN _format_paired_tsv(TopicHeading, rows) ELSE _format_tsv(TopicHeading, rows)

\* C38: round trip. The rows a parser returned, written by the formatter of
\* the same table shape under a one-line topic heading, parse again without
\* failure to the same rows: same indices, same text fields, same order.
C38_FormatParseRoundTrip ==
    (p_pc = "parsed" /\ ~p_out.raised) =>
        LET paired == p_variant = "paired"
            text == FormatterOf(p_out.rows, paired)
            again == ParserOf(text, paired)
        IN  /\ ~again.raised
            /\ again.rows = p_out.rows
            /\ Len(text) = ExpectedRows + 3
            /\ \A k \in 1..Len(text) : k <= 3 <=> Skipped(text[k], paired)

\* C38 witness: a two-column text whose rows came in descending index order,
\* with a prose line among them, was parsed to its rows in ascending order.
C38_Witness ==
    /\ p_pc = "parsed"
    /\ p_variant = "plain"
    /\ ~p_out.raised
    /\ Len(p_content) = ExpectedRows + 1
    /\ RowOfLine(p_content[1]) # <<>>
    /\ RowOfLine(p_content[1])[1].index = ExpectedRows
    /\ p_out.rows[ExpectedRows] = RowOfLine(p_content[1])[1]
    /\ p_out.rows[1].text # p_out.rows[ExpectedRows].text
    /\ ParserOf(FormatterOf(p_out.rows, FALSE), FALSE).rows = p_out.rows


\* The jobs (positions of all_jobs) the id-to-job map holds.
MappedJobs(t) == {t.jobs[id] : id \in DOMAIN t.jobs}

\* The jobs of the pending list, and whether the list names a job twice.
PendingJobs(t) == {t.pending[k] : k \in 1..Len(t.pending)}

\* The jobs whose submission was answered with an id.
SubmittedOk(t) == (1..Len(t.all_jobs)) \ (PendingJobs(t) \cup o_sub_failed)

\* The sum of get_stats' counts.
StatsTotal(t) ==
    get_stats(t)[PENDING] + get_stats(t)[SUBMITTED] + get_stats(t)[FINISHED] + get_stats(t)[ERROR]

\* A tracker step that is not add_job changes at most the fields of one job,
\* never its place or its id once given.
KeepsOrder(t, u) ==
    /\ Len(u.all_jobs) = Len(t.all_jobs)
    /\ \A k \in 1..Len(t.all_jobs) :
         t.all_jobs[k].image_id # 0 => u.all_jobs[k].image_id = t.all_jobs[k].image_id
    /\ Cardinality({k \in 1..Len(t.all_jobs) : u.all_jobs[k] # t.all_jobs[k]}) <= 1

\* C39: under the Orchestrator's add_job, mark_submitted, mark_finished and
\* mark_error calls, the pending list holds exactly the PENDING jobs (each
\* once, in insertion order), the id-to-job map holds exactly the jobs whose
\* submission succeeded, each under its own id, all_jobs grows by appending
\* only and keeps every job in its place, and the counts of get_stats sum to
\* the number of jobs added.
C39_TrackerConsistency ==
    /\ [](impl = "orchestrator" =>
            /\ PendingJobs(tracker) =
                 {j \in 1..Len(tracker.all_jobs) : tracker.all_jobs[j].status = PENDING}
            /\ \A a, b \in 1..Len(tracker.pending) : a < b => tracker.pending[a] < tracker.pending[b]
            /\ MappedJobs(tracker) = SubmittedOk(tracker)
            /\ \A id \in DOMAIN tracker.jobs :
                 id # 0 /\ tracker.all_jobs[tracker.jobs[id]].image_id = id
            /\ \A j \in 1..Len(tracker.all_jobs) :
                 j \notin MappedJobs(tracker) => tracker.all_jobs[j].image_id = 0
            /\ StatsTotal(tracker) = Len(tracker.all_jobs))
    /\ [][(impl = "orchestrator" /\ tracker' # tracker) =>
            IF O_AddJob
            THEN /\ tracker'.all_jobs = Append(tracker.all_jobs, Job)
                 /\ StatsTotal(tracker') = StatsTotal(tracker) + 1
            ELSE KeepsOrder(tracker, tracker')]_vars

\* C39 witness: in the middle of submit_all, one job was refused, the next
\* got its id and the third is still pending.
C39_Witness ==
    /\ impl = "orchestrator"
    /\ o_pc = "submit"
    /\ Len(tracker.all_jobs) = 3
    /\ tracker.all_jobs[1].status = ERROR
    /\ tracker.all_jobs[2].status = SUBMITTED
    /\ tracker.pending = <<3>>
    /\ MappedJobs(tracker) = {2}
    /\ get_stats(tracker) = [s \in JobStatus |-> IF s = FINISHED THEN 0 ELSE 1]

=============================================================================
